---- MODULE Spec2Model ----
(***************************************************************************)
(* Model of the legal-risk analyser: the per-clause rule evaluator         *)
(* local_rule_check and the aggregation                                    *)
(* analyze_chunks_against_policy_all_sections of src/src/analysis.py.      *)
(*                                                                         *)
(* Encoding of Python values:                                              *)
(*   - str       : a TLA+ string (TLC evaluates Len, SubSeq and \o on it). *)
(*   - None      : the reserved string None below.                         *)
(*   - dict      : a function whose domain is the set of keys present.     *)
(*   - importance: a whole number (1 stands for 1 or 1.0).                 *)
(*   - weights and violation weights: integers counting tenths, so         *)
(*     RISK_WEIGHTS is LOW 2, MEDIUM 5, HIGH 10 and a weight w stands for  *)
(*     w/10.  All sums are then exact, as they are in binary floating      *)
(*     point for whole importances and the weights 0.5 and 1.0.            *)
(*   - document_risk_percentage: an integer counting hundredths of a       *)
(*     percent (round(x, 2) * 100); a top_sections score: an integer       *)
(*     counting thousandths (round(w, 3) * 1000).                          *)
(*   - a raised exception: the record [raised |-> <exception name>].       *)
(***************************************************************************)
EXTENDS Integers, Sequences, FiniteSets, TLC

VARIABLES
  mode,             \* which entry point this run exercises: "eval" or "analyze"
  args,             \* local_rule_check call: [clause_name, policy_rule, relevant_text]
  rc,               \* what that call produced: a RiskCheck, a raised exception or NotCalled
  chunks,           \* analyze: the chunks argument
  policy,           \* analyze: the policy argument
  pc,               \* analyze: position in the function
  si,               \* analyze: index of the current chunk in chunks (1-based)
  ri,               \* analyze: index of the current rule in policy (1-based)
  results,          \* analyze: results
  section_scores,   \* analyze: section_scores
  section_result,   \* analyze: section_result of the chunk being processed
  total_violation_weight,
  total_importance,
  report,           \* analyze: the returned dict, a raised exception or NoReport
  weights,          \* the module-level dict RISK_WEIGHTS of analysis.py
  run,              \* analyze: 1 in the first call, 2 in a second call of the process
  first_args,       \* analyze: the chunks and policy the caller passed to the first call
  first_report,     \* analyze: what the first call returned
  content,          \* chunker: what reading the file gave (its text or Unreadable)
  raw_sections,     \* chunker: raw_sections
  idx,              \* chunker: position of the loop in raw_sections (1-based)
  use_model,        \* generator: the use_model argument
  genv,             \* generator: the environment of _call_gemini (SDK, key, models)
  max_retries,      \* _call_gemini: the max_retries argument
  candidates,       \* _call_gemini: candidates
  mi,               \* _call_gemini: index of model_name in candidates (1-based)
  attempt,          \* _call_gemini: attempt
  last_err,         \* _call_gemini: the message of last_err, None before any error
  tries,            \* _call_gemini: "Trying model" lines printed for model_name so far
  outcome,          \* _call_gemini: how the latest pass of the inner loop ended
  raw,              \* _call_gemini: what the call gave (a text, an exception, NotCalled)
  generated         \* generator: what generate_policy_from_chunks returned

\* the state of a process across calls of the analysis
rerunVars == <<weights, run, first_args, first_report>>

\* the locals of chunk_file_with_unstructured
ingestVars == <<content, raw_sections, idx>>

\* the arguments after chunks, the locals and the result of the analysis
analysisVars == <<args, rc, policy, si, ri, results, section_scores, section_result,
                  total_violation_weight, total_importance, report>>

\* the argument, the environment and the locals of the policy generator
genVars == <<use_model, genv, max_retries, candidates, mi, attempt, last_err, tries,
             outcome, raw, generated>>

vars == <<mode, args, rc, chunks, policy, pc, si, ri, results, section_scores,
          section_result, total_violation_weight, total_importance, report,
          rerunVars, ingestVars, genVars>>

-----------------------------------------------------------------------------
(* Python values *)

None == "<None>"

NotCalled == [called |-> FALSE]

NoReport == [returned |-> FALSE]

Raise(exc) == [raised |-> exc]

IsRaised(v) == "raised" \in DOMAIN v

\* d.get(k, default)
Get(d, k, default) == IF k \in DOMAIN d THEN d[k] ELSE default

\* RISK_WEIGHTS as analysis.py defines it, in tenths
RISK_WEIGHTS == [LOW |-> 2, MEDIUM |-> 5, HIGH |-> 10]

\* the process before any call of the analysis
FirstCall ==
  /\ weights = RISK_WEIGHTS
  /\ run = 1
  /\ first_args = [chunks |-> chunks, policy |-> policy]
  /\ first_report = NoReport

\* neither local_rule_check nor the analysis called
NoAnalysis ==
  /\ args = <<>>
  /\ rc = NotCalled
  /\ policy = <<>>
  /\ si = 0
  /\ ri = 0
  /\ results = <<>>
  /\ section_scores = <<>>
  /\ section_result = <<>>
  /\ total_violation_weight = 0
  /\ total_importance = 0
  /\ report = NoReport

\* the chunker not called
NoIngestion ==
  /\ content = None
  /\ raw_sections = <<>>
  /\ idx = 0

\* the policy generator not called
NoGeneration ==
  /\ use_model = FALSE
  /\ genv = <<>>
  /\ max_retries = 0
  /\ candidates = <<>>
  /\ mi = 0
  /\ attempt = 0
  /\ last_err = None
  /\ tries = 0
  /\ outcome = ""
  /\ raw = NotCalled
  /\ generated = NoReport

-----------------------------------------------------------------------------
(* str *)

Char(s, i) == SubSeq(s, i, i)

\* the characters up to U+00FF that str.lower() changes
UpperAlpha == "ABCDEFGHIJKLMNOPQRSTUVWXYZÀÁÂÃÄÅÆÇÈÉÊËÌÍÎÏÐÑÒÓÔÕÖØÙÚÛÜÝÞ"

\* what str.lower() makes of them, place by place
LowerAlpha == "abcdefghijklmnopqrstuvwxyzàáâãäåæçèéêëìíîïðñòóôõöøùúûüýþ"

Digits == "0123456789"

\* the position of the character c in alphabet, 0 when it is not there
IndexIn(alphabet, c) ==
  IF \E i \in 1..Len(alphabet) : Char(alphabet, i) = c
  THEN CHOOSE i \in 1..Len(alphabet) : Char(alphabet, i) = c
  ELSE 0

CharsOf(alphabet) == {Char(alphabet, i) : i \in 1..Len(alphabet)}

UpperChars == CharsOf(UpperAlpha)

DigitChars == CharsOf(Digits)

\* the alphanumeric characters up to U+00FF that have no other case
UncasedAlnum == "ª²³µ¹º¼½¾ßÿ"

WordChars ==
  CharsOf(UpperAlpha) \cup CharsOf(LowerAlpha) \cup CharsOf(Digits) \cup CharsOf(UncasedAlnum) \cup {"_"}

LowerMap == [c \in UpperChars |-> Char(LowerAlpha, IndexIn(UpperAlpha, c))]

DigitValue == [c \in DigitChars |-> IndexIn(Digits, c) - 1]

LowerChar(c) == IF c \in UpperChars THEN LowerMap[c] ELSE c

RECURSIVE Lower(_)
\* s.lower()
Lower(s) ==
  IF Len(s) <= 1 THEN LowerChar(s)
  ELSE IF \A i \in 1..Len(s) : Char(s, i) \notin UpperChars THEN s
  ELSE Lower(SubSeq(s, 1, Len(s) \div 2)) \o Lower(SubSeq(s, Len(s) \div 2 + 1, Len(s)))

\* kw in s
Contains(s, kw) ==
  \E i \in 1..(Len(s) - Len(kw) + 1) : SubSeq(s, i, i + Len(kw) - 1) = kw

\* s[:n]
Prefix(s, n) == IF Len(s) <= n THEN s ELSE SubSeq(s, 1, n)

IsDigit(c) == c \in DigitChars

\* the whitespace of str up to U+00FF: space, \t, \n, \v, \f, \r, the
\* separators U+001C to U+001F, U+0085 and U+00A0
SpaceChars == CharsOf(" \t\n\f\r ")

\* \s of the re module and the characters str.strip() removes; a character
\* above U+00FF cannot be written in a string of this module
IsSpace(c) == c \in SpaceChars

\* \w of the re module, for the characters up to U+00FF
IsWord(c) == c \in WordChars

IsWordAt(s, i) == i >= 1 /\ i <= Len(s) /\ IsWord(Char(s, i))

\* \b of the re module between positions i-1 and i
WordBoundary(s, i) == IsWordAt(s, i - 1) # IsWordAt(s, i)

\* the position after the longest run of digits that starts at i
SkipDigits(s, i) ==
  IF i > Len(s) THEN i
  ELSE CHOOSE j \in i..(Len(s) + 1) :
         /\ j > Len(s) \/ ~IsDigit(Char(s, j))
         /\ \A k \in i..(j - 1) : IsDigit(Char(s, k))

\* the position after the longest run of whitespace that starts at i
SkipSpaces(s, i) ==
  IF i > Len(s) THEN i
  ELSE CHOOSE j \in i..(Len(s) + 1) :
         /\ j > Len(s) \/ ~IsSpace(Char(s, j))
         /\ \A k \in i..(j - 1) : IsSpace(Char(s, k))

StartsWithAt(s, i, kw) == i + Len(kw) - 1 <= Len(s) /\ SubSeq(s, i, i + Len(kw) - 1) = kw

NoMatch == [found |-> FALSE]

\* where the match of (\b(\d+)\s*years?) that starts at i has its group 2 end, or 0
YearsMatchEnd(s, i) ==
  IF /\ i >= 1 /\ i <= Len(s) /\ IsDigit(Char(s, i))
     /\ WordBoundary(s, i)
     /\ StartsWithAt(s, SkipSpaces(s, SkipDigits(s, i)), "year")
  THEN SkipDigits(s, i) ELSE 0

\* the match of (\b(\d+)\s*years?) that starts at i, with its group 2
YearsMatchAt(s, i) == [found |-> TRUE, g2 |-> SubSeq(s, i, YearsMatchEnd(s, i) - 1)]

\* re.search(r'(\b(\d+)\s*years?)', s): the leftmost match, with its group 2
SearchYears(s) ==
  IF \E i \in 1..Len(s) : YearsMatchEnd(s, i) > 0
  THEN YearsMatchAt(s, CHOOSE i \in 1..Len(s) :
                         /\ YearsMatchEnd(s, i) > 0
                         /\ \A b \in 1..(i - 1) : YearsMatchEnd(s, b) = 0)
  ELSE NoMatch

\* the position after (\d+\.?\d*) matched greedily from i
NumberEnd(s, i) ==
  LET j == SkipDigits(s, i)
  IN IF j <= Len(s) /\ Char(s, j) = "." THEN SkipDigits(s, j + 1) ELSE j

\* (x|times)\b matches at k
UnitAt(s, k) ==
  \/ StartsWithAt(s, k, "x") /\ WordBoundary(s, k + 1)
  \/ StartsWithAt(s, k, "times") /\ WordBoundary(s, k + 5)

\* where the match of (\b(\d+\.?\d*)\s*(x|times)\b) that starts at i has its
\* group 2 end, or 0
MultiplierMatchEnd(s, i) ==
  IF /\ i >= 1 /\ i <= Len(s) /\ IsDigit(Char(s, i))
     /\ WordBoundary(s, i)
     /\ UnitAt(s, SkipSpaces(s, NumberEnd(s, i)))
  THEN NumberEnd(s, i) ELSE 0

\* the match that starts at i, with its group 2
MultiplierMatchAt(s, i) == [found |-> TRUE, g2 |-> SubSeq(s, i, MultiplierMatchEnd(s, i) - 1)]

\* re.search(r'(\b(\d+\.?\d*)\s*(x|times)\b)', s): the leftmost match, with its group 2
SearchMultiplier(s) ==
  IF \E i \in 1..Len(s) : MultiplierMatchEnd(s, i) > 0
  THEN MultiplierMatchAt(s, CHOOSE i \in 1..Len(s) :
                              /\ MultiplierMatchEnd(s, i) > 0
                              /\ \A b \in 1..(i - 1) : MultiplierMatchEnd(s, b) = 0)
  ELSE NoMatch

\* the decimal numeral g = <digits>[.<digits>]: the digits before the point
IntPart(g) == SubSeq(g, 1, SkipDigits(g, 1) - 1)

\* the digits after the point
FracPart(g) == IF SkipDigits(g, 1) > Len(g) THEN "" ELSE SubSeq(g, SkipDigits(g, 1) + 1, Len(g))

\* s holds nothing but '0'
AllZeros(s) == \A i \in 1..Len(s) : Char(s, i) = "0"

\* s without the zeros at its end
StripTrailingZeros(s) ==
  IF AllZeros(s) THEN ""
  ELSE SubSeq(s, 1, CHOOSE i \in 1..Len(s) :
                      /\ Char(s, i) # "0"
                      /\ \A j \in (i + 1)..Len(s) : Char(s, j) = "0")

\* s without the zeros at its start
StripLeadingZeros(s) ==
  IF AllZeros(s) THEN ""
  ELSE SubSeq(s, CHOOSE i \in 1..Len(s) :
                   /\ Char(s, i) # "0"
                   /\ \A j \in 1..(i - 1) : Char(s, j) = "0", Len(s))

RECURSIVE Zeros(_)
\* '0' * n
Zeros(n) ==
  IF n <= 0 THEN "" ELSE IF n = 1 THEN "0" ELSE Zeros(n \div 2) \o Zeros(n - n \div 2)

\* sys.get_int_max_str_digits(): the most digits int() converts from a str
MaxStrDigits == 4300

\* int(g) raises ValueError for a string of more digits, zeros at the start
\* counted
IntRaises(g) == Len(g) > MaxStrDigits

\* str(int(g)) for a string of digits that int() converts
IntRepr(g) == IF StripLeadingZeros(g) = "" THEN "0" ELSE StripLeadingZeros(g)

\* int(g) < 3 for a string of digits
IntLtThree(g) == IntRepr(g) \in {"0", "1", "2"}

-----------------------------------------------------------------------------
(* float: the IEEE 754 doubles of Python.  A natural number of any size is the
   sequence of its decimal digits, lowest first, without high zeros. *)

MaxOf(S) == CHOOSE i \in S : \A j \in S : j <= i

\* a without its high zeros
BigTrim(a) ==
  LET digits == SubSeq(a, 1, Len(a))
  IN SubSeq(digits, 1, CHOOSE n \in 0..Len(a) :
                         /\ n = 0 \/ digits[n] # 0
                         /\ \A i \in (n + 1)..Len(a) : digits[i] = 0)

\* the number a string of digits writes
BigOf(s) == BigTrim([i \in 1..Len(s) |-> DigitValue[Char(s, Len(s) + 1 - i)]])

RECURSIVE BigStr(_)
\* the digits of a, highest first; "" for 0
BigStr(a) ==
  IF a = <<>> THEN ""
  ELSE IF Len(a) = 1 THEN Char(Digits, a[1] + 1)
  ELSE BigStr(SubSeq(a, Len(a) \div 2 + 1, Len(a))) \o BigStr(SubSeq(a, 1, Len(a) \div 2))

BigDigit(a, i) == IF i >= 1 /\ i <= Len(a) THEN a[i] ELSE 0

\* a < b: a has the lower digit at the highest place where the two differ
BigLt(a, b) ==
  \E i \in 1..Len(b) :
    /\ BigDigit(a, i) < b[i]
    /\ \A j \in (i + 1)..MaxOf({Len(a), Len(b)}) : BigDigit(a, j) = BigDigit(b, j)

\* -1, 0, 1 as a is below, equal to, above b
BigCmp(a, b) == IF BigLt(a, b) THEN -1 ELSE IF BigLt(b, a) THEN 1 ELSE 0

\* the carry into place i of a + b: the nearest place below i whose digits do
\* not add up to 9 gives one or none, and the places between pass it on
AddCarry(a, b, i) ==
  LET n == CHOOSE t \in 1..i :
             /\ t = i \/ BigDigit(a, i - t) + BigDigit(b, i - t) # 9
             /\ \A k \in (i - t + 1)..(i - 1) : BigDigit(a, k) + BigDigit(b, k) = 9
  IN IF BigDigit(a, i - n) + BigDigit(b, i - n) >= 10 THEN 1 ELSE 0

BigAdd(a, b) ==
  BigTrim([i \in 1..(Len(a) + Len(b) + 1) |->
             (BigDigit(a, i) + BigDigit(b, i) + AddCarry(a, b, i)) % 10])

\* the borrow from place i of a - b: the nearest place below i whose digits
\* differ takes one or none, and the places between pass it on
SubBorrow(a, b, i) ==
  LET n == CHOOSE t \in 1..i :
             /\ t = i \/ BigDigit(a, i - t) # BigDigit(b, i - t)
             /\ \A k \in (i - t + 1)..(i - 1) : BigDigit(a, k) = BigDigit(b, k)
  IN IF BigDigit(a, i - n) < BigDigit(b, i - n) THEN 1 ELSE 0

\* a - b, for a >= b
BigSub(a, b) ==
  BigTrim([i \in 1..Len(a) |-> (a[i] - BigDigit(b, i) - SubBorrow(a, b, i) + 10) % 10])

\* a * 2: a place carries 1 exactly when its digit is 5 or more
BigDouble(a) ==
  BigTrim([i \in 1..(Len(a) + 1) |->
             (2 * BigDigit(a, i) + (IF BigDigit(a, i - 1) >= 5 THEN 1 ELSE 0)) % 10])

\* a * 5: a place carries half its digit
BigTimes5(a) ==
  BigTrim([i \in 1..(Len(a) + 1) |-> 5 * (BigDigit(a, i) % 2) + BigDigit(a, i - 1) \div 2])

RECURSIVE BigTimesPow2(_, _)
\* a * 2^k
BigTimesPow2(a, k) ==
  IF a = <<>> \/ k = 0 THEN a
  ELSE IF k = 1 THEN BigDouble(a)
  ELSE BigTimesPow2(BigTimesPow2(a, k \div 2), k - k \div 2)

RECURSIVE BigTimesPow5(_, _)
\* a * 5^k
BigTimesPow5(a, k) ==
  IF a = <<>> \/ k = 0 THEN a
  ELSE IF k = 1 THEN BigTimes5(a)
  ELSE BigTimesPow5(BigTimesPow5(a, k \div 2), k - k \div 2)

\* a * 10^k
BigTimesPow10(a, k) == IF a = <<>> THEN <<>> ELSE [i \in 1..k |-> 0] \o a

\* b * 1, ..., b * 9
MultiplesFrom(b, b2, b5) ==
  <<b, b2, BigAdd(b2, b), BigDouble(b2), b5, BigAdd(b5, b), BigAdd(b5, b2),
    BigDouble(BigDouble(b2)), BigAdd(b5, BigDouble(b2))>>

BigMultiples(b) == MultiplesFrom(b, BigDouble(b), BigTimes5(b))

\* how often b goes into rem, for rem < 10 * b, and what is left, from the
\* multiples of b
FitOf(rem, multiples, d) ==
  IF d = 0 THEN [d |-> 0, rem |-> rem] ELSE [d |-> d, rem |-> BigSub(rem, multiples[d])]

BigFit(rem, multiples) == FitOf(rem, multiples, Cardinality({k \in 1..9 : ~BigLt(rem, multiples[k])}))

RECURSIVE BigDivFrom(_, _, _, _, _)
\* long division by a number, from its multiples: the digits of a from the
\* hi-th down to the lo-th are brought down to rem one after the other, the
\* higher half of them first; quot has the digits of the quotient they give
BigDivFrom(a, multiples, lo, hi, rem) ==
  IF lo = hi
  THEN LET fit == BigFit(BigTrim(<<a[lo]>> \o rem), multiples)
       IN [quot |-> <<fit.d>>, rem |-> fit.rem]
  ELSE LET mid == (lo + hi) \div 2
           upper == BigDivFrom(a, multiples, mid + 1, hi, rem)
           lower == BigDivFrom(a, multiples, lo, mid, upper.rem)
       IN IF upper.rem = <<>> /\ \A i \in lo..mid : a[i] = 0
          THEN [quot |-> [i \in 1..(mid - lo + 1) |-> 0] \o upper.quot, rem |-> <<>>]
          ELSE [quot |-> lower.quot \o upper.quot, rem |-> lower.rem]

\* the quotient and the remainder of a by b, for b > 0: the highest
\* Len(b) - 1 digits of a are below b and are brought down at once
TrimQuotient(all) == [quot |-> BigTrim(all.quot), rem |-> all.rem]

BigDivMod(a, b) ==
  IF Len(a) < Len(b) THEN [quot |-> <<>>, rem |-> a]
  ELSE TrimQuotient(BigDivFrom(a, BigMultiples(b), 1, Len(a) - Len(b) + 1,
                               BigTrim(SubSeq(a, Len(a) - Len(b) + 2, Len(a)))))

\* an int of the model as a natural number of any size, for n >= 0
BigOfNat(n) == BigOf(ToString(n))

RECURSIVE NatOfBig(_)
\* the natural number a as an int of the model, when it is small enough
NatOfBig(a) == IF a = <<>> THEN 0 ELSE Head(a) + 10 * NatOfBig(Tail(a))

\* num / den rounded to a whole number, ties to the even one
RoundUpIf(quot, c) ==
  IF c > 0 \/ (c = 0 /\ BigDigit(quot, 1) % 2 = 1) THEN BigAdd(quot, <<1>>) ELSE quot

RoundQuotient(dm, den) ==
  IF dm.rem = <<>> THEN dm.quot ELSE RoundUpIf(dm.quot, BigCmp(BigDouble(dm.rem), den))

BigRoundHalfEven(num, den) == RoundQuotient(BigDivMod(num, den), den)

\* a double above 0 is m * 2^q with m < 2^53, and m >= 2^52 unless q = -1074
\* (a subnormal); DoubleZero is 0.0 and DoubleInf is inf
DoubleZero == [m |-> <<>>, q |-> 0, inf |-> FALSE]

DoubleInf == [m |-> <<>>, q |-> 0, inf |-> TRUE]

\* the highest 9 digits of a, as an int
BigHead(a) == NatOfBig(SubSeq(a, MaxOf({1, Len(a) - 8}), Len(a)))

\* the whole part of the binary logarithm of an int above 0
Log2(n) == CHOOSE k \in 0..30 : 2^k <= n /\ n < 2 * 2^k

\* the whole part of the binary logarithm of num / den, within 2: from the
\* highest digits of the two and the digits left out (a decimal digit is
\* 3.3219 binary ones)
Log2Guess(num, den) ==
  LET left_out == MaxOf({0, Len(num) - 9}) - MaxOf({0, Len(den) - 9})
      digits == IF left_out >= 0 THEN (left_out * 33219) \div 10000
                ELSE -((-left_out * 33219 + 9999) \div 10000)
  IN Log2(BigHead(num)) - Log2(BigHead(den)) + digits

\* the double nearest to num / den, ties to the even mantissa: what float(),
\* and /, * on doubles give for the exact value num / den >= 0.  With
\* n / d = (num / den) / 2^low in [1, 32), num / den lies in [2^e, 2^(e+1))
\* for e = low + up, and the double is m * 2^q for q = e - 52, or for
\* q = -1074 when that is more (a subnormal).
DoubleOf(m, q) ==
  IF m = <<>> THEN DoubleZero
  ELSE IF m = BigTimesPow2(<<1>>, 53)
       THEN IF q + 1 > 971 THEN DoubleInf
            ELSE [m |-> BigTimesPow2(<<1>>, 52), q |-> q + 1, inf |-> FALSE]
  ELSE IF q > 971 THEN DoubleInf
  ELSE [m |-> m, q |-> q, inf |-> FALSE]

RoundAt(n, d, low, q) == DoubleOf(BigRoundHalfEven(BigTimesPow2(n, 52), BigTimesPow2(d, q + 52 - low)), q)

RoundIn(n, d, low, up) == RoundAt(n, d, low, IF low + up - 52 < -1074 THEN -1074 ELSE low + up - 52)

RoundScaled(n, d, low) ==
  RoundIn(n, d, low, CHOOSE t \in 0..4 :
                       /\ BigCmp(BigTimesPow2(d, t), n) <= 0
                       /\ BigCmp(n, BigTimesPow2(d, t + 1)) < 0)

RoundFrom(num, den, low) ==
  RoundScaled(IF low < 0 THEN BigTimesPow2(num, -low) ELSE num,
              IF low > 0 THEN BigTimesPow2(den, low) ELSE den, low)

RoundToDouble(num, den) ==
  IF num = <<>> THEN DoubleZero ELSE RoundFrom(num, den, Log2Guess(num, den) - 2)

\* a decimal above 0 is 0.<digits> * 10^decpt, digits without zeros at either
\* end; digits is "" for 0 and "inf" for inf
Decimal(digits, decpt) == [digits |-> digits, decpt |-> decpt]

\* the double nearest to a decimal: inf from 10^309 on (the greatest double
\* is below 1.8 * 10^308), 0.0 below 10^-324 (the least double above 0 is
\* 4.9 * 10^-324)
DoubleOfDecimal(d) ==
  IF d.decpt > 309 THEN DoubleInf
  ELSE IF d.decpt < -323 THEN DoubleZero
  ELSE RoundToDouble(IF d.decpt >= Len(d.digits)
                     THEN BigTimesPow10(BigOf(d.digits), d.decpt - Len(d.digits))
                     ELSE BigOf(d.digits),
                     IF d.decpt >= Len(d.digits) THEN <<1>>
                     ELSE BigTimesPow10(<<1>>, Len(d.digits) - d.decpt))

\* a double above 0 in quarters of its last place: 4 * m * 2^(q-2)
FourM(x) == BigDouble(BigDouble(x.m))

\* the numbers of the decimal places a multiple of 2^(q-2) is written with
ExactPlaces(x) == IF x.q >= 2 THEN 0 ELSE 2 - x.q

\* k * 2^(q-2) * 10^ExactPlaces(x): a whole number
ExactScaled(x, k) ==
  IF x.q >= 2 THEN BigTimesPow2(k, x.q - 2) ELSE BigTimesPow5(k, 2 - x.q)

\* the numbers that float() turns into x, with the decimal places of x: those
\* between half way down to the double before x (the doubles before
\* 2^52 * 2^q are half as far apart) and half way up to the double after it;
\* the two half ways go to x themselves when m is even
IntervalAround(exact, quarter, narrow, closed) ==
  [lo |-> BigSub(exact, IF narrow THEN quarter ELSE BigDouble(quarter)),
   hi |-> BigAdd(exact, BigDouble(quarter)), closed |-> closed]

RoundingInterval(x) ==
  IntervalAround(ExactScaled(x, FourM(x)), ExactScaled(x, <<1>>),
                 x.m = BigTimesPow2(<<1>>, 52) /\ x.q > -1074, BigDigit(x.m, 1) % 2 = 0)

\* c lies in the interval
RoundsTo(to_x, c) ==
  IF to_x.closed THEN BigCmp(to_x.lo, c) <= 0 /\ BigCmp(c, to_x.hi) <= 0
  ELSE BigCmp(to_x.lo, c) < 0 /\ BigCmp(c, to_x.hi) < 0

\* the exact value cut after its n highest digits (up = 0), and the next
\* number of n digits above it (up = 1)
CutTo(exact, n, up) ==
  IF up = 0 THEN [i \in 1..Len(exact) |-> IF i <= Len(exact) - n THEN 0 ELSE exact[i]]
  ELSE BigAdd([i \in 1..Len(exact) |-> IF i <= Len(exact) - n THEN 0 ELSE exact[i]],
              BigTimesPow10(<<1>>, Len(exact) - n))

\* the digits of exact after the n highest are less than, exactly, or more
\* than half a unit of the n-th: -1, 0, 1
RestAgainstHalf(exact, n) ==
  LET rest == SubSeq(exact, 1, Len(exact) - n)
  IN IF rest[Len(rest)] < 5 THEN -1
     ELSE IF rest[Len(rest)] = 5 /\ BigTrim(SubSeq(rest, 1, Len(rest) - 1)) = <<>> THEN 0
     ELSE 1

\* of the two numbers of n digits around the exact value of x, the nearest
\* to it that float() turns into x
NearestTo(exact, n, half, down, up) ==
  IF ~up THEN CutTo(exact, n, 0)
  ELSE IF ~down THEN CutTo(exact, n, 1)
  ELSE CutTo(exact, n, IF half < 0 \/ (half = 0 /\ exact[Len(exact) - n + 1] % 2 = 0) THEN 0 ELSE 1)

NearestOf(to_x, exact, n) ==
  NearestTo(exact, n, RestAgainstHalf(exact, n),
            RoundsTo(to_x, CutTo(exact, n, 0)), RoundsTo(to_x, CutTo(exact, n, 1)))

\* the decimal repr() writes for the double x: the one of the fewest digits
\* that float() turns into x, and of those the nearest to x (dtoa mode 0)
DecimalOfBig(best, places) == Decimal(StripTrailingZeros(BigStr(best)), Len(best) - places)

ShortestOf(to_x, exact, places, few) ==
  DecimalOfBig(IF few = {} THEN exact
               ELSE NearestOf(to_x, exact, CHOOSE n \in few : \A k \in few : n <= k), places)

ShortestIn(to_x, exact, places) ==
  ShortestOf(to_x, exact, places,
             {n \in 1..MaxOf({0, Len(exact) - 1}) :
                /\ n <= 17
                /\ RoundsTo(to_x, CutTo(exact, n, 0)) \/ RoundsTo(to_x, CutTo(exact, n, 1))} \cup {})

ShortestDecimal(x) ==
  IF x.inf THEN Decimal("inf", 0)
  ELSE IF x.m = <<>> THEN Decimal("", 0)
  ELSE ShortestIn(RoundingInterval(x), ExactScaled(x, FourM(x)), ExactPlaces(x))

\* the numeral g as a decimal
DecimalFrom(ip, all, sig) ==
  IF sig = "" THEN Decimal("", 0)
  ELSE Decimal(StripTrailingZeros(sig), Len(ip) - (Len(all) - Len(sig)))

DecimalOf(g) == DecimalFrom(IntPart(g), IntPart(g) \o FracPart(g), StripLeadingZeros(IntPart(g) \o FracPart(g)))

\* float(g), named by the decimal repr() writes for it.  A decimal of at most
\* 15 digits within the range of the normal doubles is the shortest decimal
\* of its double (DBL_DIG = 15), so it names its double itself; any other goes
\* through the double nearest to it.
FloatOfDecimal(d) ==
  IF Len(d.digits) <= 15 /\ d.decpt >= -290 /\ d.decpt <= 290 THEN d
  ELSE ShortestDecimal(DoubleOfDecimal(d))

Float(g) == FloatOfDecimal(DecimalOf(g))

\* the first place where the digits of a and b differ, both filled up with
\* zeros to the same length; 0 when there is none
FirstDifference(a, b) ==
  LET n == IF Len(a) >= Len(b) THEN Len(a) ELSE Len(b)
      pa == a \o Zeros(n - Len(a))
      pb == b \o Zeros(n - Len(b))
      diff == {i \in 1..n : Char(pa, i) # Char(pb, i)}
  IN IF diff = {} THEN [at |-> 0, a |-> 0, b |-> 0]
     ELSE LET i == CHOOSE k \in diff : \A j \in diff : k <= j
          IN [at |-> i, a |-> DigitValue[Char(pa, i)], b |-> DigitValue[Char(pb, i)]]

\* x < y for two floats named by their decimals
LessAt(diff) == diff.a < diff.b

FloatLt(x, y) ==
  IF x.digits = "inf" THEN FALSE
  ELSE IF y.digits = "inf" THEN TRUE
  ELSE IF y.digits = "" THEN FALSE
  ELSE IF x.digits = "" THEN TRUE
  ELSE IF x.decpt # y.decpt THEN x.decpt < y.decpt
  ELSE LessAt(FirstDifference(x.digits, y.digits))

\* x <= y
FloatLeq(x, y) == x = y \/ FloatLt(x, y)

\* the float 1.5
OneAndHalf == Decimal("15", 1)

\* FloatLeqOneAndHalf with a strict comparison: float(g) < 1.5
FloatLtOneAndHalf(g) == FloatLt(Float(g), OneAndHalf)

\* float(g) <= 1.5
FloatLeqOneAndHalf(g) == FloatLeq(Float(g), OneAndHalf)

\* the exponent repr() writes: a sign and two digits or more
ExponentRepr(e) ==
  IF e < 0 THEN "e-" \o (IF -e < 10 THEN "0" ELSE "") \o ToString(-e)
  ELSE "e+" \o (IF e < 10 THEN "0" ELSE "") \o ToString(e)

\* repr() of the float a decimal names: the digits with the point in them for
\* -4 < decpt <= 16, with an exponent otherwise
DecimalRepr(d) ==
  LET n == Len(d.digits)
  IN IF d.digits = "inf" THEN "inf"
     ELSE IF d.digits = "" THEN "0.0"
     ELSE IF d.decpt > 16 \/ d.decpt < -3
          THEN SubSeq(d.digits, 1, 1) \o (IF n > 1 THEN "." \o SubSeq(d.digits, 2, n) ELSE "")
                 \o ExponentRepr(d.decpt - 1)
     ELSE IF d.decpt <= 0 THEN "0." \o Zeros(-d.decpt) \o d.digits
     ELSE IF d.decpt >= n THEN d.digits \o Zeros(d.decpt - n) \o ".0"
     ELSE SubSeq(d.digits, 1, d.decpt) \o "." \o SubSeq(d.digits, d.decpt + 1, n)

\* f'{float(g)}'
FloatRepr(g) == DecimalRepr(Float(g))

-----------------------------------------------------------------------------
(* local_rule_check: the decision of each clause category on the lower-cased
   section text.  Each returns the triple the branch assigns. *)

Decision(v, level, why) == [is_violation |-> v, risk_level |-> level, reasoning |-> why]

\* lines 22-30: the finding of a duration written with the digits g
DurationDecision(g) ==
  IF IntRaises(g) THEN Raise("ValueError")
  ELSE IF IntLtThree(g)
       THEN Decision(TRUE, "MEDIUM",
              "Found confidentiality duration " \o IntRepr(g)
                \o " year(s) but policy requires >= 3 years.")
       ELSE Decision(FALSE, "LOW",
              "Confidentiality duration " \o IntRepr(g) \o " year(s) meets policy.")

\* lines 20-34
DurationOf(m) ==
  IF m.found THEN DurationDecision(m.g2)
  ELSE Decision(TRUE, "MEDIUM", "No explicit confidentiality duration found.")

ConfidentialityCheck(txt) == DurationOf(SearchYears(txt))

\* the finding of a multiplier whose value is (leq) or is not at most 1.5 and
\* is written repr
MultiplierDecision(leq, repr) ==
  IF leq
  THEN Decision(FALSE, "LOW", "Liability capped at " \o repr \o "x which meets policy.")
  ELSE Decision(TRUE, "HIGH", "Liability capped at " \o repr \o "x which exceeds policy 1.5x.")

LiabilityCheck(txt) ==
  IF SearchMultiplier(txt).found \/ Contains(txt, "1.5") \/ Contains(txt, "total fees")
  THEN LET m == SearchMultiplier(txt)
       IN IF m.found
          THEN MultiplierDecision(FloatLeqOneAndHalf(m.g2), FloatRepr(m.g2))
          ELSE IF Contains(txt, "1.5")
               THEN Decision(FALSE, "LOW",
                      "Liability text contains 1.5 token; treated as compliant (heuristic).")
               ELSE IF Contains(txt, "total fees")
                    THEN Decision(TRUE, "HIGH",
                           "Liability limited to total fees paid (no multiplier) -> treated as violation per policy.")
                    ELSE Decision(TRUE, "HIGH",
                           "Liability cap not numeric or absent; treated as violation.")
  ELSE Decision(TRUE, "HIGH", "No explicit safe liability cap found.")

DataSaleCheck(txt) ==
  IF Contains(txt, "sell") \/ Contains(txt, "commercial")
  THEN Decision(TRUE, "HIGH", "Clause allows selling or commercializing client data without consent.")
  ELSE Decision(FALSE, "LOW", "No data sale detected.")

TerminationCheck(txt) ==
  IF Contains(txt, "30 days") \/ Contains(txt, "30-day") \/ Contains(txt, "payment in lieu")
  THEN Decision(FALSE, "LOW", "Adequate termination notice found.")
  ELSE Decision(TRUE, "MEDIUM", "No adequate termination notice found.")

IndemnityCheck(txt) ==
  IF Contains(txt, "neglig") /\ (Contains(txt, "client") /\ Contains(txt, "indemn"))
  THEN IF Contains(txt, "provider") \/ Contains(txt, "company")
       THEN Decision(TRUE, "HIGH",
              "Client indemnifies provider even for provider negligence -> violation.")
       ELSE Decision(TRUE, "MEDIUM", "Broad indemnity language present; needs narrowing.")
  ELSE Decision(FALSE, "LOW", "Indemnity language not overly broad.")

AvailabilityCheck(txt) ==
  IF Contains(txt, "99.5") \/ Contains(txt, "uptime") \/ Contains(txt, "guarantee")
       \/ Contains(txt, "compens")
  THEN Decision(FALSE, "LOW", "Service availability / uptime commitment present.")
  ELSE Decision(TRUE, "MEDIUM", "No uptime guarantee; provider may suspend arbitrarily.")

SecurityCheck(txt) ==
  IF Contains(txt, "encryption") \/ Contains(txt, "access control") \/ Contains(txt, "safeguard")
       \/ Contains(txt, "implement")
  THEN Decision(FALSE, "LOW", "Security obligations present.")
  ELSE Decision(TRUE, "HIGH", "Provider disclaims security responsibilities.")

\* RefundCheck rating its violation LOW
RefundCheck_LowViolation(txt) ==
  IF Contains(txt, "refund") \/ Contains(txt, "compens") \/ Contains(txt, "remedy")
  THEN Decision(FALSE, "LOW", "Refund or remedy terms present.")
  ELSE Decision(TRUE, "LOW", "No refund/remedy for outages or breaches.")

RefundCheck(txt) ==
  IF Contains(txt, "refund") \/ Contains(txt, "compens") \/ Contains(txt, "remedy")
  THEN Decision(FALSE, "LOW", "Refund or remedy terms present.")
  ELSE Decision(TRUE, "MEDIUM", "No refund/remedy for outages or breaches.")

GoverningLawCheck(txt) ==
  IF Contains(txt, "new york") \/ Contains(txt, "governed by the laws of")
       \/ Contains(txt, "state of")
  THEN Decision(FALSE, "LOW", "Recognized legal jurisdiction present.")
  ELSE Decision(TRUE, "HIGH",
         "Governing law not a recognized jurisdiction or only internal policies.")

DisputeCheck(txt) ==
  IF Contains(txt, "arbitration")
       /\ (Contains(txt, "binding") \/ Contains(txt, "independent") \/ Contains(txt, "judicial"))
  THEN Decision(FALSE, "LOW", "Independent arbitration or judicial review allowed.")
  ELSE Decision(TRUE, "HIGH", "Dispute resolution is unilateral or internal-only.")

\* DefaultCheck reporting the unmatched clause as a violation
DefaultCheck_Violation ==
  Decision(TRUE, "LOW", "Clause not directly matched by deterministic checks (treated as low risk).")

DefaultCheck ==
  Decision(FALSE, "LOW", "Clause not directly matched by deterministic checks (treated as low risk).")

\* RiskCheck(...) on the decision d of the chain, or the exception the chain
\* raised; pydantic rejects None for the str fields clause_name and policy_rule
RiskCheck(clause_name, policy_rule, relevant_text, d) ==
  IF IsRaised(d) THEN d
  ELSE IF clause_name = None \/ policy_rule = None
  THEN Raise("ValidationError")
  ELSE [clause_name    |-> clause_name,
        policy_rule    |-> policy_rule,
        extracted_text |-> Prefix(IF relevant_text = None THEN "" ELSE relevant_text, 1000),
        is_violation   |-> d.is_violation,
        risk_level     |-> d.risk_level,
        citation       |-> "SECTION (in-file)",
        reasoning      |-> d.reasoning]

-----------------------------------------------------------------------------
(* local_rule_check: the condition of each branch of the if/elif chain, on the
   lower-cased clause name, the lower-cased rule text and the lower-cased
   section text. *)

ConfidentialityTrigger(clause, rule, txt) ==
  Contains(clause, "confidential") \/ Contains(txt, "confidenti")

\* LiabilityTrigger also looking for 'liability' in the section text
LiabilityTrigger_WithBody(clause, rule, txt) ==
  Contains(clause, "liability") \/ Contains(rule, "liability") \/ Contains(txt, "liability")

LiabilityTrigger(clause, rule, txt) ==
  Contains(clause, "liability") \/ Contains(rule, "liability")

DataSaleTrigger(clause, rule, txt) ==
  Contains(clause, "data") \/ Contains(rule, "sell") \/ Contains(rule, "commercialize")

TerminationTrigger(clause, rule, txt) ==
  Contains(clause, "terminat") \/ Contains(rule, "termination")

IndemnityTrigger(clause, rule, txt) ==
  Contains(clause, "indemn") \/ Contains(rule, "indemn")

AvailabilityTrigger(clause, rule, txt) ==
  Contains(clause, "availability") \/ Contains(rule, "uptime") \/ Contains(txt, "suspend")

SecurityTrigger(clause, rule, txt) ==
  Contains(clause, "security") \/ Contains(rule, "protect") \/ Contains(txt, "security")

RefundTrigger(clause, rule, txt) ==
  Contains(clause, "refund") \/ Contains(rule, "refund")

GoverningLawTrigger(clause, rule, txt) ==
  Contains(clause, "govern") \/ Contains(rule, "governing") \/ Contains(txt, "law")

DisputeTrigger(clause, rule, txt) ==
  Contains(clause, "dispute") \/ Contains(rule, "arbitration") \/ Contains(txt, "panel")

\* txt = (relevant_text or '').lower()
LoweredText(relevant_text) == Lower(IF relevant_text = None THEN "" ELSE relevant_text)

\* RuleChain with the liability branch placed before the confidentiality branch
RuleChain_LiabilityFirst(clause, rule, txt) ==
  IF LiabilityTrigger(clause, rule, txt) THEN LiabilityCheck(txt)
  ELSE IF ConfidentialityTrigger(clause, rule, txt) THEN ConfidentialityCheck(txt)
  ELSE IF DataSaleTrigger(clause, rule, txt) THEN DataSaleCheck(txt)
  ELSE IF TerminationTrigger(clause, rule, txt) THEN TerminationCheck(txt)
  ELSE IF IndemnityTrigger(clause, rule, txt) THEN IndemnityCheck(txt)
  ELSE IF AvailabilityTrigger(clause, rule, txt) THEN AvailabilityCheck(txt)
  ELSE IF SecurityTrigger(clause, rule, txt) THEN SecurityCheck(txt)
  ELSE IF RefundTrigger(clause, rule, txt) THEN RefundCheck(txt)
  ELSE IF GoverningLawTrigger(clause, rule, txt) THEN GoverningLawCheck(txt)
  ELSE IF DisputeTrigger(clause, rule, txt) THEN DisputeCheck(txt)
  ELSE DefaultCheck

\* the if/elif chain of local_rule_check, lines 18-168
RuleChain(clause, rule, txt) ==
  IF ConfidentialityTrigger(clause, rule, txt) THEN ConfidentialityCheck(txt)
  ELSE IF LiabilityTrigger(clause, rule, txt) THEN LiabilityCheck(txt)
  ELSE IF DataSaleTrigger(clause, rule, txt) THEN DataSaleCheck(txt)
  ELSE IF TerminationTrigger(clause, rule, txt) THEN TerminationCheck(txt)
  ELSE IF IndemnityTrigger(clause, rule, txt) THEN IndemnityCheck(txt)
  ELSE IF AvailabilityTrigger(clause, rule, txt) THEN AvailabilityCheck(txt)
  ELSE IF SecurityTrigger(clause, rule, txt) THEN SecurityCheck(txt)
  ELSE IF RefundTrigger(clause, rule, txt) THEN RefundCheck(txt)
  ELSE IF GoverningLawTrigger(clause, rule, txt) THEN GoverningLawCheck(txt)
  ELSE IF DisputeTrigger(clause, rule, txt) THEN DisputeCheck(txt)
  ELSE DefaultCheck

\* policy_rule.lower() is reached with policy_rule = None: the chain evaluates
\* it first as the right operand of the liability condition (line 37), that
\* is when the confidentiality condition is false and 'liability' is not in
\* clause.lower()
RuleLowerRaises(clause, policy_rule, txt) ==
  /\ policy_rule = None
  /\ ~ConfidentialityTrigger(clause, "", txt)
  /\ ~Contains(clause, "liability")

\* local_rule_check(clause_name, policy_rule, relevant_text).  clause.lower()
\* is the first operand evaluated (line 18), so a None clause_name raises at
\* once; a None policy_rule raises at line 37 or, when an earlier branch is
\* taken, in RiskCheck(...); int() raises at line 22 for a duration of more
\* than 4300 digits.
local_rule_check(clause_name, policy_rule, relevant_text) ==
  LET txt == LoweredText(relevant_text)
  IN IF clause_name = None THEN Raise("AttributeError")
     ELSE IF RuleLowerRaises(Lower(clause_name), policy_rule, txt) THEN Raise("AttributeError")
     ELSE RiskCheck(clause_name, policy_rule, relevant_text,
                    RuleChain(Lower(clause_name),
                              IF policy_rule = None THEN "" ELSE Lower(policy_rule), txt))

-----------------------------------------------------------------------------
(* Inputs of the evaluator runs *)

\* the longest section text of an evaluator run, in phrases
MaxPhrases == 2

Phrases ==
  { "Confidential for 2 years",
    "total fees for 5 Years",
    "liability capped at 2x total fees",
    "up to 1.5 times",
    "limit 1.5 by law",
    "vendor may sell or suspend service; client indemnifies negligence",
    "30 days uptime; company encryption security",
    "refund in the State of New York; binding arbitration panel" }

RECURSIVE JoinPhrases(_)
\* ' '.join(seq)
JoinPhrases(seq) ==
  IF seq = <<>> THEN ""
  ELSE IF Len(seq) = 1 THEN seq[1]
  ELSE seq[1] \o " " \o JoinPhrases(Tail(seq))

\* a duration of more digits than int() converts
LongDuration == "Confidential for " \o Zeros(MaxStrDigits) \o "2 years"

EvalTexts ==
  {JoinPhrases(seq) : seq \in UNION {[1..n -> Phrases] : n \in 0..MaxPhrases}}
    \cup {LongDuration, None}

EvalClauseNames ==
  { "Confidentiality Term", "Liability Cap", "Data Sale Prohibition", "Termination Notice",
    "Indemnity Scope", "Service Availability", "Security Responsibility", "Refund Policy",
    "Governing Law", "Dispute Resolution", "Misc", None }

EvalPolicyRules ==
  { "General obligations apply.",
    "Liability cap must not exceed 1.5x total fees.",
    "Provider must protect data and guarantee uptime; refund on termination.",
    "Client shall not indemnify; provider must not sell data.",
    None }

-----------------------------------------------------------------------------
(* The evaluator run: one call of local_rule_check *)

InitEval ==
  /\ mode = "eval"
  /\ args \in [clause_name : EvalClauseNames, policy_rule : EvalPolicyRules,
               relevant_text : EvalTexts]
  /\ rc = NotCalled
  /\ chunks = <<>>
  /\ policy = <<>>
  /\ pc = "idle"
  /\ si = 0
  /\ ri = 0
  /\ results = <<>>
  /\ section_scores = <<>>
  /\ section_result = <<>>
  /\ total_violation_weight = 0
  /\ total_importance = 0
  /\ report = NoReport
  /\ FirstCall
  /\ NoIngestion
  /\ NoGeneration

CallLocalRuleCheck ==
  /\ mode = "eval"
  /\ rc = NotCalled
  /\ rc' = local_rule_check(args.clause_name, args.policy_rule, args.relevant_text)
  /\ UNCHANGED <<genVars, rerunVars, ingestVars, mode, args, chunks, policy, pc, si, ri, results, section_scores,
                 section_result, total_violation_weight, total_importance, report>>

NextEval == CallLocalRuleCheck

SpecEval == InitEval /\ [][NextEval]_vars

-----------------------------------------------------------------------------
(* analyze_chunks_against_policy_all_sections: helpers *)

\* RISK_WEIGHTS.get(level, 0.2), in tenths, read from the module-level dict
RiskWeight(level) == IF level \in DOMAIN weights THEN weights[level] ELSE 2

\* max(RISK_WEIGHTS.values()), in tenths
MaxRiskWeight ==
  CHOOSE w \in {weights[k] : k \in DOMAIN weights} :
    \A k \in DOMAIN weights : weights[k] <= w

RECURSIVE SumImportance(_)
\* the loop of lines 188-189: total_importance += p.get('importance', 1.0) * 1.0
SumImportance(pol) ==
  IF pol = <<>> THEN 0
  ELSE SumImportance(SubSeq(pol, 1, Len(pol) - 1)) + Get(pol[Len(pol)], "importance", 1)

\* n / d rounded to the nearest integer, ties to the even one (d > 0)
RoundHalfEven(n, d) ==
  LET q == n \div d
      r == n - q * d
  IN IF 2 * r < d THEN q
     ELSE IF 2 * r > d THEN q + 1
     ELSE IF q % 2 = 0 THEN q ELSE q + 1

\* the double of n tenths, n >= 0
DoubleOfTenths(n) == RoundToDouble(BigOfNat(n), <<0, 1>>)

\* x / y for two doubles above 0
DoubleDiv(x, y) ==
  RoundToDouble(BigTimesPow2(x.m, IF x.q > y.q THEN x.q - y.q ELSE 0),
                BigTimesPow2(y.m, IF y.q > x.q THEN y.q - x.q ELSE 0))

\* the exact value of x * 100 for a double x, as a fraction
TimesHundred(x) ==
  [num |-> BigTimesPow2(BigTimesPow10(x.m, 2), IF x.q > 0 THEN x.q ELSE 0),
   den |-> BigTimesPow2(<<1>>, IF x.q < 0 THEN -x.q ELSE 0)]

\* x * 100.0
DoubleTimesHundred(x) == RoundToDouble(TimesHundred(x).num, TimesHundred(x).den)

\* round(x, 2) for a double x >= 0, in hundredths: the exact value of x goes
\* to the nearest hundredth, a tie to the even one
RoundToHundredths(x) == NatOfBig(BigRoundHalfEven(TimesHundred(x).num, TimesHundred(x).den))

\* round((w / m) * 100.0, 2) in hundredths, for w >= 0 and m > 0 in tenths: each
\* of w, m, the quotient and the product is the double nearest to it
DoublePercentage(w, m) ==
  RoundToHundredths(DoubleTimesHundred(DoubleDiv(DoubleOfTenths(w), DoubleOfTenths(m))))

\* RiskPercentage without the min(100.0, ...) clamp
RiskPercentage_NoClamp(tvw, max_possible) ==
  IF max_possible > 0 THEN RoundHalfEven(tvw * 10000, max_possible) ELSE 0

\* RiskPercentage cutting the value to 2 decimals instead of rounding it
RiskPercentage_Truncating(tvw, max_possible) ==
  IF max_possible > 0
  THEN IF tvw * 100 >= 100 * max_possible THEN 10000
       ELSE (tvw * 10000) \div max_possible
  ELSE 0

\* round(min(100.0, (total_violation_weight / max_possible) * 100.0
\*                   if max_possible > 0 else 0.0), 2), in hundredths of a percent.
\* tvw and max_possible are both in tenths.  The doubles of the code are less
\* than 10^-15 of the value away from the exact quotient, which is closer to
\* no middle of two hundredths it is not on: off a middle a quotient of
\* numbers that leave tvw * 10000 within the integers rounds as the double
\* does, and the doubles decide the rest.
RiskPercentage(tvw, max_possible) ==
  IF max_possible > 0
  THEN IF tvw >= max_possible THEN 10000
       ELSE IF /\ tvw > -200000
               /\ max_possible < 200000
               /\ 2 * ((tvw * 10000) % max_possible) # max_possible
            THEN RoundHalfEven(tvw * 10000, max_possible)
       ELSE (IF tvw < 0 THEN -1 ELSE 1)
              * DoublePercentage(IF tvw < 0 THEN -tvw ELSE tvw, max_possible)
  ELSE 0

\* InsertDesc placing x before the elements of equal key
InsertDesc_BeforeEqual(sorted, x, key) ==
  LET above == SelectSeq(sorted, LAMBDA y : y[key] > x[key])
      rest == SelectSeq(sorted, LAMBDA y : ~(y[key] > x[key]))
  IN above \o <<x>> \o rest

RECURSIVE InsertDesc(_, _, _)
\* x placed in the descending sequence sorted, after every element whose key
\* (the value under the dict key named key) is not smaller than its own
InsertDesc(sorted, x, key) ==
  IF sorted = <<>> THEN <<x>>
  ELSE IF Head(sorted)[key] >= x[key] THEN <<Head(sorted)>> \o InsertDesc(Tail(sorted), x, key)
  ELSE <<x>> \o sorted

RECURSIVE SortedDesc(_, _)
\* sorted(seq, key=lambda x: x[key], reverse=True): descending, and elements of
\* equal key in the order they have in seq
SortedDesc(seq, key) ==
  IF seq = <<>> THEN <<>>
  ELSE InsertDesc(SortedDesc(SubSeq(seq, 1, Len(seq) - 1), key), seq[Len(seq)], key)

PositiveWeight(s) == s.section_violation_weight > 0

\* lines 224-225.  score is round(weight, 3), in thousandths
TopSections(scores) ==
  LET sorted_sections == SortedDesc(scores, "section_violation_weight")
      kept == SelectSeq(sorted_sections, PositiveWeight)
  IN [k \in 1..Len(kept) |->
        [id      |-> kept[k].id,
         snippet |-> kept[k].text,
         score   |-> RoundHalfEven(kept[k].section_violation_weight * 1000, 10)]]

\* DictAdd storing w in place of the sum: clause_agg[name] = w
DictAdd_Overwrite(agg, name, w) ==
  IF \E k \in 1..Len(agg) : agg[k].clause_name = name
  THEN [k \in 1..Len(agg) |->
          IF agg[k].clause_name = name THEN [clause_name |-> name, score |-> w] ELSE agg[k]]
  ELSE Append(agg, [clause_name |-> name, score |-> w])

\* clause_agg[name] = clause_agg.get(name, 0.0) + w, on a dict kept as the
\* sequence of its items in insertion order
DictAdd(agg, name, w) ==
  IF \E k \in 1..Len(agg) : agg[k].clause_name = name
  THEN [k \in 1..Len(agg) |->
          IF agg[k].clause_name = name
          THEN [clause_name |-> name, score |-> agg[k].score + w]
          ELSE agg[k]]
  ELSE Append(agg, [clause_name |-> name, score |-> 0 + w])

RECURSIVE ClauseAgg(_)
\* the loop of lines 227-230; scores in tenths
ClauseAgg(res) ==
  IF res = <<>> THEN <<>>
  ELSE LET r == res[Len(res)]
           before == ClauseAgg(SubSeq(res, 1, Len(res) - 1))
       IN IF r.is_violation
          THEN DictAdd(before, r.clause_name, RiskWeight(r.risk_level) * Get(r, "importance", 1))
          ELSE before

\* line 232
TopClauses(res) == SortedDesc(ClauseAgg(res), "score")

-----------------------------------------------------------------------------
(* Inputs of the analysis runs *)

\* the longest chunks list of an analysis run
MaxSections == 2

\* the longest policy list of an analysis run
MaxRules == 2

\* marks a key that the dict given to the analysis does not have
Absent == "<absent>"

RECURSIVE Repeat(_, _)
Repeat(s, n) == IF n = 0 THEN "" ELSE s \o Repeat(s, n - 1)

\* a section of more than 300 characters
LongText == "Confidential information is protected for 1 year." \o Repeat(" The parties agree to the terms.", 9)

SectionTexts ==
  { "Liability is capped at 2x total fees",
    "Liability is capped at 1.5 times the fees",
    LongText,
    None,
    Absent }

\* the chunk the chunker appends for the section enumerate numbers id, whose
\* stripped text is clean_text
Chunk(id, clean_text) == [id |-> id, text |-> clean_text, type |-> "NarrativeText"]

\* a dict the caller gives the analysis as a section: a chunk of the chunker,
\* or a dict whose text is None or that has no text
Section(id, text) ==
  IF text = Absent THEN [id |-> id, type |-> "NarrativeText"]
  ELSE IF text = None THEN [id |-> id, text |-> None, type |-> "NarrativeText"]
  ELSE Chunk(id, text)

\* in the files of the analysis runs a blank section stands in front of the
\* long section
BlankBefore(text) == text = LongText

\* the id of the k-th of the sections with these texts: enumerate counts the
\* blank sections of the file as well, which give no chunk
SectionId(texts, k) == (k - 1) + Cardinality({j \in 1..k : BlankBefore(texts[j])})

ChunkLists ==
  UNION { { [k \in 1..n |-> Section(SectionId(texts, k), texts[k])]
            : texts \in [1..n -> SectionTexts] }
          : n \in 0..MaxSections }

PolicyRules ==
  { [clause_name |-> "Liability Cap",
     policy_rule |-> "Liability cap must not exceed 1.5x total fees.",
     risk_level_if_violated |-> "HIGH", importance |-> 2],
    [clause_name |-> "Confidentiality Term",
     policy_rule |-> "Confidentiality obligations must last for at least 3 years.",
     risk_level_if_violated |-> "MEDIUM", importance |-> 1],
    [clause_name |-> "Termination Notice",
     policy_rule |-> "Termination requires notice.",
     risk_level_if_violated |-> "LOW", importance |-> -1],
    [policy_rule |-> "General obligations apply.", importance |-> 1],
    [clause_name |-> "Misc", policy_rule |-> "General obligations apply."] }

PolicyLists == UNION { [1..n -> PolicyRules] : n \in 0..MaxRules }

-----------------------------------------------------------------------------
(* The analysis run: analyze_chunks_against_policy_all_sections(chunks, policy) *)

Init ==
  /\ mode = "analyze"
  /\ args = <<>>
  /\ rc = NotCalled
  /\ chunks \in ChunkLists
  /\ policy \in PolicyLists
  /\ pc = "start"
  /\ si = 0
  /\ ri = 0
  /\ results = <<>>
  /\ section_scores = <<>>
  /\ section_result = <<>>
  /\ total_violation_weight = 0
  /\ total_importance = 0
  /\ report = NoReport
  /\ FirstCall
  /\ NoIngestion
  /\ NoGeneration

\* lines 182-189: the initialisations and the total-importance loop
Start ==
  /\ mode = "analyze"
  /\ pc = "start"
  /\ results' = <<>>
  /\ section_scores' = <<>>
  /\ total_violation_weight' = 0
  /\ total_importance' = SumImportance(policy)
  /\ si' = 1
  /\ pc' = "chunk"
  /\ UNCHANGED <<genVars, rerunVars, ingestVars, mode, args, rc, chunks, policy, ri, section_result, report>>

\* ViolationWeight without the test of is_violation
ViolationWeight_Always(check, importance) == RiskWeight(check.risk_level) * importance

\* lines 213-216: the weight a finding adds to its section and to the document
\* (in tenths), 0 for a finding that is no violation
ViolationWeight(check, importance) ==
  IF check.is_violation THEN RiskWeight(check.risk_level) * importance ELSE 0

\* AppendFinding putting the finding in front: results.insert(0, rcd)
AppendFinding_InFront(res, rcd) == <<rcd>> \o res

\* line 211: results.append(rcd)
AppendFinding(res, rcd) == Append(res, rcd)

\* lines 192-201: the next chunk; None[:300] raises TypeError
BeginSection ==
  /\ pc = "chunk"
  /\ si <= Len(chunks)
  /\ LET section_text == Get(chunks[si], "text", "")
         section_id == Get(chunks[si], "id", None)
     IN IF section_text = None
        THEN /\ pc' = "raised"
             /\ report' = Raise("TypeError")
             /\ UNCHANGED <<section_result, ri>>
        ELSE /\ section_result' =
                  [id |-> section_id,
                   text |-> Prefix(section_text, 300),
                   violations |-> <<>>,
                   section_violation_weight |-> 0,
                   section_importance_total |-> 0]
             /\ ri' = 1
             /\ pc' = "rule"
             /\ UNCHANGED report
  /\ UNCHANGED <<genVars, rerunVars, ingestVars, mode, args, rc, chunks, policy, si, results, section_scores,
                 total_violation_weight, total_importance>>

\* EvalRule weighing a violation by the severity the policy rule declares
EvalRule_DeclaredLevel ==
  /\ pc = "rule"
  /\ ri <= Len(policy)
  /\ LET p == policy[ri]
         clause_name == Get(p, "clause_name", None)
         policy_rule == Get(p, "policy_rule", None)
         importance == Get(p, "importance", 1)
     IN \E check \in {local_rule_check(clause_name, policy_rule, Get(chunks[si], "text", ""))} :
          IF IsRaised(check)
          THEN /\ pc' = "raised"
               /\ report' = check
               /\ UNCHANGED <<ri, results, section_result, total_violation_weight>>
          ELSE LET w == IF check.is_violation
                           THEN RiskWeight(Get(p, "risk_level_if_violated", "MEDIUM")) * importance
                           ELSE 0
                   \* rcd = rc.dict() with section_id and importance attached
                   rcd == check @@ [section_id |-> Get(chunks[si], "id", None),
                                    importance |-> importance]
               IN /\ results' = AppendFinding(results, rcd)
                  /\ section_result' =
                       [section_result EXCEPT
                          !.section_importance_total = @ + importance,
                          !.section_violation_weight = @ + w]
                  /\ total_violation_weight' = total_violation_weight + w
                  /\ ri' = ri + 1
                  /\ UNCHANGED <<pc, report>>
  /\ UNCHANGED <<genVars, rerunVars, ingestVars, mode, args, rc, chunks, policy, si, section_scores, total_importance>>

\* EvalRule recording each violating finding in the section's violations list
EvalRule_RecordingViolations ==
  /\ pc = "rule"
  /\ ri <= Len(policy)
  /\ LET p == policy[ri]
         clause_name == Get(p, "clause_name", None)
         policy_rule == Get(p, "policy_rule", None)
         importance == Get(p, "importance", 1)
     IN \E check \in {local_rule_check(clause_name, policy_rule, Get(chunks[si], "text", ""))} :
          IF IsRaised(check)
          THEN /\ pc' = "raised"
               /\ report' = check
               /\ UNCHANGED <<ri, results, section_result, total_violation_weight>>
          ELSE LET w == ViolationWeight(check, importance)
                   \* rcd = rc.dict() with section_id and importance attached
                   rcd == check @@ [section_id |-> Get(chunks[si], "id", None),
                                    importance |-> importance]
               IN /\ results' = AppendFinding(results, rcd)
                  /\ section_result' =
                       [section_result EXCEPT
                          !.violations = IF check.is_violation THEN Append(@, rcd) ELSE @,
                          !.section_importance_total = @ + importance,
                          !.section_violation_weight = @ + w]
                  /\ total_violation_weight' = total_violation_weight + w
                  /\ ri' = ri + 1
                  /\ UNCHANGED <<pc, report>>
  /\ UNCHANGED <<genVars, rerunVars, ingestVars, mode, args, rc, chunks, policy, si, section_scores, total_importance>>

\* lines 202-216: one pass of the inner loop
EvalRule ==
  /\ pc = "rule"
  /\ ri <= Len(policy)
  /\ LET p == policy[ri]
         clause_name == Get(p, "clause_name", None)
         policy_rule == Get(p, "policy_rule", None)
         importance == Get(p, "importance", 1)
     IN \E check \in {local_rule_check(clause_name, policy_rule, Get(chunks[si], "text", ""))} :
          IF IsRaised(check)
          THEN /\ pc' = "raised"
               /\ report' = check
               /\ UNCHANGED <<ri, results, section_result, total_violation_weight>>
          ELSE LET w == ViolationWeight(check, importance)
                   \* rcd = rc.dict() with section_id and importance attached
                   rcd == check @@ [section_id |-> Get(chunks[si], "id", None),
                                    importance |-> importance]
               IN /\ results' = AppendFinding(results, rcd)
                  /\ section_result' =
                       [section_result EXCEPT
                          !.section_importance_total = @ + importance,
                          !.section_violation_weight = @ + w]
                  /\ total_violation_weight' = total_violation_weight + w
                  /\ ri' = ri + 1
                  /\ UNCHANGED <<pc, report>>
  /\ UNCHANGED <<genVars, rerunVars, ingestVars, mode, args, rc, chunks, policy, si, section_scores, total_importance>>

\* line 217, at the end of the inner loop
EndSection ==
  /\ pc = "rule"
  /\ ri > Len(policy)
  /\ section_scores' = Append(section_scores, section_result)
  /\ si' = si + 1
  /\ pc' = "chunk"
  /\ UNCHANGED <<genVars, rerunVars, ingestVars, mode, args, rc, chunks, policy, ri, results, section_result,
                 total_violation_weight, total_importance, report>>

\* lines 219-240, at the end of the outer loop
Finish ==
  /\ pc = "chunk"
  /\ si > Len(chunks)
  /\ LET max_possible == total_importance * MaxRiskWeight
     IN report' =
          [results |-> results,
           section_scores |-> section_scores,
           document_risk_percentage |-> RiskPercentage(total_violation_weight, max_possible),
           top_sections |-> TopSections(section_scores),
           top_clauses |-> TopClauses(results)]
  /\ pc' = "done"
  /\ UNCHANGED <<genVars, rerunVars, ingestVars, mode, args, rc, chunks, policy, si, ri, results, section_scores,
                 section_result, total_violation_weight, total_importance>>

Next == Start \/ BeginSection \/ EvalRule \/ EndSection \/ Finish

Spec == Init /\ [][Next]_vars

-----------------------------------------------------------------------------
(* A second call of the analysis in the same process *)

\* the rule p of a policies.json declaring severity lvl, or none when lvl is
\* Absent: the file holds what its writer put there
Declare(p, lvl) ==
  LET keys == (DOMAIN p \ {"risk_level_if_violated"})
              \cup (IF lvl = Absent THEN {} ELSE {"risk_level_if_violated"})
  IN [k \in keys |-> IF k = "risk_level_if_violated" THEN lvl ELSE p[k]]

\* severities the rules of a policies.json declare: recognised ones, an
\* unrecognised one, none
DeclaredLevels == <<"LOW", "HIGH", "CRITICAL", Absent>>

\* the ways the caller declares the severities anew
Relabellings == 0..2

\* the policy list pol with its r-th rule declaring the level shift + r of
\* DeclaredLevels, counted round
Relabel(pol, shift) ==
  [r \in 1..Len(pol) |->
     Declare(pol[r], DeclaredLevels[((shift + r) % Len(DeclaredLevels)) + 1])]

\* the first call has returned its report and the caller calls the function
\* again with the same chunks and a policy list that differs from the first one
\* only in the severities its rules declare
RerunRelabelled ==
  /\ mode = "analyze"
  /\ pc = "done"
  /\ run = 1
  /\ run' = 2
  /\ first_report' = report
  /\ report' = NoReport
  /\ \E shift \in Relabellings : policy' = Relabel(policy, shift)
  /\ pc' = "start"
  /\ UNCHANGED <<genVars, weights, first_args, ingestVars, mode, args, rc, chunks, si, ri,
                 results, section_scores, section_result, total_violation_weight,
                 total_importance>>

NextRelabelled == Next \/ RerunRelabelled

SpecRelabelled == Init /\ [][NextRelabelled]_vars

-----------------------------------------------------------------------------
(* The chunker: chunk_file_with_unstructured(file_path) of src/src/ingestion.py *)

\* the longest file content of a chunker run, in characters
MaxContentLen == 7

\* what the read of a file that cannot be opened or decoded leaves: no content
Unreadable == "<unreadable>"

\* the characters of the file contents: a letter, a blank, a line break
ContentChars == {"a", " ", "\n"}

RECURSIVE ContentsOfLen(_)
\* the file contents of exactly n characters
ContentsOfLen(n) ==
  IF n = 0 THEN {""} ELSE {s \o c : s \in ContentsOfLen(n - 1), c \in ContentChars}

FileContents == UNION {ContentsOfLen(n) : n \in 0..MaxContentLen}

\* s.find(sep) + 1: the first position at which sep occurs in s, 0 if none
Find(s, sep) ==
  LET at == {i \in 1..(Len(s) - Len(sep) + 1) : SubSeq(s, i, i + Len(sep) - 1) = sep}
  IN IF at = {} THEN 0 ELSE CHOOSE i \in at : \A j \in at : i <= j

RECURSIVE Split(_, _)
\* s.split(sep): the pieces between the occurrences of sep, found from the left
Split(s, sep) ==
  LET i == Find(s, sep)
  IN IF i = 0 THEN <<s>>
     ELSE <<SubSeq(s, 1, i - 1)>> \o Split(SubSeq(s, i + Len(sep), Len(s)), sep)

RECURSIVE LStrip(_)
LStrip(s) == IF s # "" /\ IsSpace(Char(s, 1)) THEN LStrip(SubSeq(s, 2, Len(s))) ELSE s

RECURSIVE RStrip(_)
RStrip(s) ==
  IF s # "" /\ IsSpace(Char(s, Len(s))) THEN RStrip(SubSeq(s, 1, Len(s) - 1)) ELSE s

\* s.strip()
Strip(s) == RStrip(LStrip(s))

InitChunker ==
  /\ mode = "chunk"
  /\ content \in FileContents \cup {Unreadable}
  /\ raw_sections = <<>>
  /\ idx = 0
  /\ chunks = <<>>
  /\ pc = "start"
  /\ NoAnalysis
  /\ FirstCall
  /\ NoGeneration

\* lines 5-13: chunks = [], the read of the file (a failure returns []) and the split
ReadFile ==
  /\ mode = "chunk"
  /\ pc = "start"
  /\ chunks' = <<>>
  /\ IF content = Unreadable
     THEN /\ pc' = "done"
          /\ UNCHANGED <<raw_sections, idx>>
     ELSE /\ raw_sections' = Split(content, "\n\n")
          /\ idx' = 1
          /\ pc' = "loop"
  /\ UNCHANGED <<genVars, rerunVars, analysisVars, mode, content>>

\* ChunkSection appending a chunk for a blank section too
ChunkSection_KeepingBlank ==
  /\ mode = "chunk"
  /\ pc = "loop"
  /\ idx <= Len(raw_sections)
  /\ LET clean_text == Strip(raw_sections[idx])
     IN chunks' = Append(chunks, Chunk(idx - 1, clean_text))
  /\ idx' = idx + 1
  /\ UNCHANGED <<genVars, rerunVars, analysisVars, mode, content, raw_sections, pc>>

\* lines 14-17: one pass of the loop; enumerate counts from 0 and idx from 1
ChunkSection ==
  /\ mode = "chunk"
  /\ pc = "loop"
  /\ idx <= Len(raw_sections)
  /\ LET clean_text == Strip(raw_sections[idx])
     IN chunks' = IF clean_text # ""
                  THEN Append(chunks, Chunk(idx - 1, clean_text))
                  ELSE chunks
  /\ idx' = idx + 1
  /\ UNCHANGED <<genVars, rerunVars, analysisVars, mode, content, raw_sections, pc>>

\* lines 19-20: return chunks
ReturnChunks ==
  /\ mode = "chunk"
  /\ pc = "loop"
  /\ idx > Len(raw_sections)
  /\ pc' = "done"
  /\ UNCHANGED <<genVars, rerunVars, analysisVars, ingestVars, mode, chunks>>

NextChunker == ReadFile \/ ChunkSection \/ ReturnChunks

SpecChunker == InitChunker /\ [][NextChunker]_vars

-----------------------------------------------------------------------------
(* json.loads, json.dumps and _extract_json_from_text of                     *)
(* src/src/policy_generator.py                                               *)
(*                                                                           *)
(* A JSON value is kept as the text json.dumps gives for it, and a dict as   *)
(* the function from each of its keys, written as json.dumps writes it       *)
(* between the quotes, to the text of the value under it.  The nesting of    *)
(* arrays and objects is not bounded here as the recursion limit of the      *)
(* interpreter bounds it.                                                    *)

\* s[i-1] where it exists, '' past the end of s
At(s, i) == IF i >= 1 /\ i <= Len(s) THEN Char(s, i) ELSE ""

JsonFail == [ok |-> FALSE]

\* a value that ends before position end; items are the members of an object
JsonValue(end, text, items) == [ok |-> TRUE, end |-> end, text |-> text, items |-> items]

\* the characters U+0020 to U+005F, in the order of their codes
PrintableAscii == " !\"#$%&'()*+,-./0123456789:;<=>?@ABCDEFGHIJKLMNOPQRSTUVWXYZ[\\]^_"

\* the characters U+0061 to U+007E; U+0060 cannot be written in a string of
\* this module, which therefore has no text with that character in it
LowerAscii == "abcdefghijklmnopqrstuvwxyz{|}~"

\* the characters U+0001 to U+001F
ControlAscii == "\t\n\f\r"

\* the characters U+007F to U+00FF
AboveAscii == " ¡¢£¤¥¦§¨©ª«¬­®¯°±²³´µ¶·¸¹º»¼½¾¿ÀÁÂÃÄÅÆÇÈÉÊËÌÍÎÏÐÑÒÓÔÕÖ×ØÙÚÛÜÝÞßàáâãäåæçèéêëìíîïðñòóôõö÷øùúûüýþÿ"

PrintableChars == CharsOf(PrintableAscii) \cup CharsOf(LowerAscii)

\* the characters json.dumps writes as they are
PlainChars == PrintableChars \ {"\"", "\\"}

\* ord(c) for a character up to U+00FF
CodeOf(c) ==
  IF IndexIn(PrintableAscii, c) > 0 THEN 31 + IndexIn(PrintableAscii, c)
  ELSE IF IndexIn(LowerAscii, c) > 0 THEN 96 + IndexIn(LowerAscii, c)
  ELSE IF IndexIn(AboveAscii, c) > 0 THEN 126 + IndexIn(AboveAscii, c)
  ELSE IndexIn(ControlAscii, c)

HexDigits == "0123456789abcdef"

\* '{0:04x}'.format(n)
Hex4(n) ==
  Char(HexDigits, ((n \div 4096) % 16) + 1) \o Char(HexDigits, ((n \div 256) % 16) + 1)
    \o Char(HexDigits, ((n \div 16) % 16) + 1) \o Char(HexDigits, (n % 16) + 1)

\* what json.dumps writes for the character, or the half of a surrogate pair,
\* with the code n (ensure_ascii is set); json.dumps writes U+0060 as it is,
\* which no string of this module can hold: DumpCode(96) has no value
DumpCode(n) ==
  IF n = 34 THEN "\\\""
  ELSE IF n = 92 THEN "\\\\"
  ELSE IF n = 10 THEN "\\n"
  ELSE IF n = 13 THEN "\\r"
  ELSE IF n = 9 THEN "\\t"
  ELSE IF n = 12 THEN "\\f"
  ELSE IF n = 8 THEN "\\b"
  ELSE IF n >= 32 /\ n <= 95 THEN Char(PrintableAscii, n - 31)
  ELSE IF n >= 96 /\ n <= 126 THEN Char(LowerAscii, n - 96)
  ELSE "\\u" \o Hex4(n)

RECURSIVE DumpChars(_, _, _)
\* what json.dumps writes for the characters lo to hi of str
DumpChars(str, lo, hi) ==
  IF lo > hi THEN ""
  ELSE IF \A k \in lo..hi : Char(str, k) \in PlainChars THEN SubSeq(str, lo, hi)
  ELSE IF lo = hi THEN DumpCode(CodeOf(Char(str, lo)))
  ELSE DumpChars(str, lo, (lo + hi) \div 2) \o DumpChars(str, (lo + hi) \div 2 + 1, hi)

\* json.dumps(str)
DumpStr(str) == "\"" \o DumpChars(str, 1, Len(str)) \o "\""

\* the whitespace json skips between tokens: space, \t, \n, \r
JsonSpaceChars == CharsOf(" \t\n\r")

\* the position after the longest run of JSON whitespace that starts at i
SkipJsonSpaces(s, i) ==
  IF i > Len(s) THEN i
  ELSE CHOOSE j \in i..(Len(s) + 1) :
         /\ j > Len(s) \/ Char(s, j) \notin JsonSpaceChars
         /\ \A k \in i..(j - 1) : Char(s, k) \in JsonSpaceChars

\* the length of the run of backslashes that ends before position k and
\* starts after position from
BackslashRun(s, from, k) ==
  CHOOSE n \in 0..(k - 1 - from) :
    /\ n = k - 1 - from \/ Char(s, k - n - 1) # "\\"
    /\ \A u \in (k - n)..(k - 1) : Char(s, u) = "\\"

\* the character at k stands behind the backslash that opens an escape
Escaped(s, from, k) == (BackslashRun(s, from, k) % 2) = 1

\* the quote at j closes the string that opens at i
ClosesString(s, i, j) == Char(s, j) = "\"" /\ ~Escaped(s, i, j)

\* the position of the quote that closes the string that opens at i, 0 when
\* none does
StringEnd(s, i) ==
  IF \E j \in (i + 1)..Len(s) : ClosesString(s, i, j)
  THEN CHOOSE j \in (i + 1)..Len(s) :
         /\ ClosesString(s, i, j)
         /\ \A b \in (i + 1)..(j - 1) : ~ClosesString(s, i, b)
  ELSE 0

HexChars == CharsOf("0123456789abcdefABCDEF")

\* int(c, 16)
HexValue(c) == IndexIn(HexDigits, LowerChar(c)) - 1

\* the four hex digits of a \u escape stand at k + 1 to k + 4, before the
\* closing quote at j
HexAt(s, k, j) == k + 4 < j /\ \A t \in (k + 1)..(k + 4) : Char(s, t) \in HexChars

\* the code the four hex digits after position k write
UnitAt16(s, k) ==
  4096 * HexValue(Char(s, k + 1)) + 256 * HexValue(Char(s, k + 2))
    + 16 * HexValue(Char(s, k + 3)) + HexValue(Char(s, k + 4))

\* the character at k is one of the four hex digits of a \u escape
InUnit(s, i, k) ==
  \E t \in (IF k - 4 > i THEN k - 4 ELSE i + 1)..(k - 1) :
    Char(s, t) = "u" /\ Escaped(s, i, t)

\* the character at k, in the string that opens at i and closes at j, is
\* one the scanner takes: no control character as it is (strict), no escape
\* but \" \\ \/ \b \f \n \r \t and \u with four hex digits
TakenAt(s, i, j, k) ==
  IF Char(s, k) = "\\" THEN TRUE
  ELSE IF Escaped(s, i, k)
       THEN \/ Char(s, k) \in {"\"", "/", "b", "f", "n", "r", "t"}
            \/ Char(s, k) = "u" /\ HexAt(s, k, j)
  ELSE CodeOf(Char(s, k)) >= 32

\* what the escape with the character c at k stands for, as json.dumps
\* writes it.  A \u escape gives one code, and the two halves of a surrogate
\* pair, which the scanner joins to one character, are written apart again.
DumpEscape(s, k, c) ==
  IF c = "\"" THEN "\\\""
  ELSE IF c = "/" THEN "/"
  ELSE IF c = "u" THEN DumpCode(UnitAt16(s, k))
  ELSE "\\" \o c

\* what json.dumps writes for the character at k of the string that opens at i
DumpAt(s, i, k) ==
  IF Char(s, k) = "\\" THEN (IF Escaped(s, i, k) THEN "\\\\" ELSE "")
  ELSE IF Escaped(s, i, k) THEN DumpEscape(s, k, Char(s, k))
  ELSE IF InUnit(s, i, k) THEN ""
  ELSE DumpCode(CodeOf(Char(s, k)))

RECURSIVE DumpBody(_, _, _, _)
\* what json.dumps writes for the characters lo to hi of the string that
\* opens at i; characters with no backslash among them nor in the five places
\* before them are written as they are
DumpBody(s, i, lo, hi) ==
  IF lo > hi THEN ""
  ELSE IF \A k \in (IF lo - 5 > i THEN lo - 5 ELSE i + 1)..hi : Char(s, k) \in PlainChars
       THEN SubSeq(s, lo, hi)
  ELSE IF lo = hi THEN DumpAt(s, i, lo)
  ELSE DumpBody(s, i, lo, (lo + hi) \div 2) \o DumpBody(s, i, (lo + hi) \div 2 + 1, hi)

\* the string that opens at i and closes at j (0: it does not close)
StringTo(s, i, j) ==
  IF j = 0 THEN JsonFail
  ELSE IF \A k \in (i + 1)..(j - 1) : TakenAt(s, i, j, k)
       THEN JsonValue(j + 1, "\"" \o DumpBody(s, i, i + 1, j - 1) \o "\"", <<>>)
       ELSE JsonFail

\* scanstring: the string literal that opens with the quote at i
ParseString(s, i) == StringTo(s, i, StringEnd(s, i))

\* the position after the digits before the point, given the first at d
IntEnd(s, d) == IF Char(s, d) = "0" THEN d + 1 ELSE SkipDigits(s, d)

\* the position after the fraction, given that the digits before end at e: a
\* point counts when a digit follows it
FractionEnd(s, e) ==
  IF At(s, e) = "." /\ IsDigit(At(s, e + 1)) THEN SkipDigits(s, e + 1) ELSE e

\* where the digits of the exponent would start, given that the fraction
\* ends at f: behind e or E and a sign; 0 when there is no e or E
ExponentStart(s, f) ==
  IF At(s, f) \in {"e", "E"}
  THEN IF At(s, f + 1) \in {"+", "-"} THEN f + 2 ELSE f + 1
  ELSE 0

\* the position after the exponent: e or E counts when digits follow it
ExponentEnd(s, f, x) == IF x > 0 /\ IsDigit(At(s, x)) THEN SkipDigits(s, x) ELSE f

\* the exponent the digits g write, cut at ten million: no text is so long
\* that its digits would make up for more
ExponentValue(g) == IF Len(g) > 7 THEN 10000000 ELSE NatOfBig(BigOf(g))

\* the decimal d times 10^e
TimesPow10(d, e) == IF d.digits = "" THEN d ELSE Decimal(d.digits, d.decpt + e)

\* json.dumps of the float a decimal names
DumpFloat(d) == IF d.digits = "inf" THEN "Infinity" ELSE DecimalRepr(d)

\* json.dumps(float(numstr)) for the mantissa and the exponent of numstr
FloatText(mantissa, e) == DumpFloat(FloatOfDecimal(TimesPow10(DecimalOf(mantissa), e)))

\* the exponent written from x to before end, 0 when none is written
ExponentOf(s, f, x, end) ==
  IF end = f THEN 0
  ELSE (IF At(s, x - 1) = "-" THEN -1 ELSE 1)
         * ExponentValue(StripLeadingZeros(SubSeq(s, x, end - 1)))

\* the number whose digits start at d, end before e with the fraction before
\* f and the exponent before end: an int without fraction and exponent, which
\* int() converts up to 4300 digits, a float otherwise
NumberOf(s, i, d, e, f, x, end) ==
  IF end = e
  THEN IF IntRaises(SubSeq(s, d, e - 1)) THEN JsonFail
       ELSE JsonValue(end, IF SubSeq(s, d, e - 1) = "0" THEN "0" ELSE SubSeq(s, i, e - 1), <<>>)
  ELSE JsonValue(end, SubSeq(s, i, d - 1) \o FloatText(SubSeq(s, d, f - 1), ExponentOf(s, f, x, end)),
                 <<>>)

NumberAfter(s, i, d, e, f, x) == NumberOf(s, i, d, e, f, x, ExponentEnd(s, f, x))

NumberFrom(s, i, d, e, f) == NumberAfter(s, i, d, e, f, ExponentStart(s, f))

NumberAt(s, i, d, e) == NumberFrom(s, i, d, e, FractionEnd(s, e))

NumberWith(s, i, d) == IF IsDigit(At(s, d)) THEN NumberAt(s, i, d, IntEnd(s, d)) ELSE JsonFail

\* the number -?(0|[1-9]\d*)(\.\d+)?([eE][-+]?\d+)? that starts at i
ParseNumber(s, i) == NumberWith(s, i, IF At(s, i) = "-" THEN i + 1 ELSE i)

RECURSIVE JoinWith(_, _)
\* sep.join(seq)
JoinWith(seq, sep) ==
  IF seq = <<>> THEN ""
  ELSE IF Len(seq) = 1 THEN seq[1]
  ELSE seq[1] \o sep \o JoinWith(Tail(seq), sep)

\* d[key] = text on a dict kept as the sequence of its items: a key already
\* there keeps its place and takes the new value
PutItem(items, key, text) ==
  IF \E k \in 1..Len(items) : items[k][1] = key
  THEN [k \in 1..Len(items) |-> IF items[k][1] = key THEN <<key, text>> ELSE items[k]]
  ELSE Append(items, <<key, text>>)

\* json.dumps of a dict kept as the sequence of its items
DumpItems(items) ==
  "{" \o JoinWith([k \in 1..Len(items) |-> "\"" \o items[k][1] \o "\": " \o items[k][2]], ", ")
      \o "}"

RECURSIVE ParseValue(_, _)
RECURSIVE ParseElements(_, _, _)
RECURSIVE ElementsAfter(_, _, _)
RECURSIVE ElementsEnd(_, _, _)
RECURSIVE ParseMembers(_, _, _)
RECURSIVE MembersAfterKey(_, _, _)
RECURSIVE MembersAfterColon(_, _, _, _)
RECURSIVE MembersAfter(_, _, _, _)
RECURSIVE MembersEnd(_, _, _)

\* an array whose elements have the texts given, with ] or , at k
ElementsEnd(s, k, texts) ==
  IF At(s, k) = "," THEN ParseElements(s, SkipJsonSpaces(s, k + 1), texts)
  ELSE IF At(s, k) = "]" THEN JsonValue(k + 1, "[" \o JoinWith(texts, ", ") \o "]", <<>>)
  ELSE JsonFail

\* the element v read, texts being those before
ElementsAfter(s, v, texts) ==
  IF v.ok THEN ElementsEnd(s, SkipJsonSpaces(s, v.end), Append(texts, v.text)) ELSE JsonFail

\* the elements of an array from position i on, texts being those before
ParseElements(s, i, texts) == ElementsAfter(s, ParseValue(s, i), texts)

\* an object with the members all, with } or , at k
MembersEnd(s, k, all) ==
  IF At(s, k) = "," THEN ParseMembers(s, SkipJsonSpaces(s, k + 1), all)
  ELSE IF At(s, k) = "}" THEN JsonValue(k + 1, DumpItems(all), all)
  ELSE JsonFail

\* the value v read for the key name, items being the members before
MembersAfter(s, name, v, items) ==
  IF v.ok THEN MembersEnd(s, SkipJsonSpaces(s, v.end), PutItem(items, name, v.text))
  ELSE JsonFail

\* the key name read, with the colon at c
MembersAfterColon(s, name, c, items) ==
  IF At(s, c) = ":" THEN MembersAfter(s, name, ParseValue(s, SkipJsonSpaces(s, c + 1)), items)
  ELSE JsonFail

\* the key read, items being the members before
MembersAfterKey(s, key, items) ==
  IF key.ok
  THEN MembersAfterColon(s, SubSeq(key.text, 2, Len(key.text) - 1),
                         SkipJsonSpaces(s, key.end), items)
  ELSE JsonFail

\* the members of an object from position i on, items being those before
ParseMembers(s, i, items) ==
  IF At(s, i) = "\"" THEN MembersAfterKey(s, ParseString(s, i), items) ELSE JsonFail

\* the object whose first token after { is at k
ParseObject(s, k) ==
  IF At(s, k) = "}" THEN JsonValue(k + 1, "{}", <<>>) ELSE ParseMembers(s, k, <<>>)

\* the array whose first token after [ is at k
ParseArray(s, k) ==
  IF At(s, k) = "]" THEN JsonValue(k + 1, "[]", <<>>) ELSE ParseElements(s, k, <<>>)

\* scan_once: the JSON value that starts at position i of s
ParseValue(s, i) ==
  IF At(s, i) = "\"" THEN ParseString(s, i)
  ELSE IF At(s, i) = "{" THEN ParseObject(s, SkipJsonSpaces(s, i + 1))
  ELSE IF At(s, i) = "[" THEN ParseArray(s, SkipJsonSpaces(s, i + 1))
  ELSE IF StartsWithAt(s, i, "null") THEN JsonValue(i + 4, "null", <<>>)
  ELSE IF StartsWithAt(s, i, "true") THEN JsonValue(i + 4, "true", <<>>)
  ELSE IF StartsWithAt(s, i, "false") THEN JsonValue(i + 5, "false", <<>>)
  ELSE IF StartsWithAt(s, i, "NaN") THEN JsonValue(i + 3, "NaN", <<>>)
  ELSE IF StartsWithAt(s, i, "Infinity") THEN JsonValue(i + 8, "Infinity", <<>>)
  ELSE IF StartsWithAt(s, i, "-Infinity") THEN JsonValue(i + 9, "-Infinity", <<>>)
  ELSE ParseNumber(s, i)

\* the value v when nothing but whitespace follows it in s
WholeOf(s, v) == IF v.ok /\ SkipJsonSpaces(s, v.end) > Len(s) THEN v ELSE JsonFail

\* json.loads(s): the value when all of s is one JSON value between whitespace
JsonLoads(s) == WholeOf(s, ParseValue(s, SkipJsonSpaces(s, 1)))

\* the dict kept as the sequence items, as a function from its keys
DictOf(items) ==
  [key \in {items[k][1] : k \in 1..Len(items)} |->
     LET k == CHOOSE n \in 1..Len(items) : items[n][1] = key IN items[k][2]]

\* the value v when it is a dict
DictIn(v) ==
  IF v.ok /\ At(v.text, 1) = "{" THEN [found |-> TRUE, dict |-> DictOf(v.items)] ELSE NoMatch

\* json.loads(s) when it succeeds and isinstance(parsed, dict)
LoadsDict(s) == DictIn(JsonLoads(s))

\* the position of the first { of text, 0 when there is none
FirstBrace(text) ==
  IF \E i \in 1..Len(text) : Char(text, i) = "{"
  THEN CHOOSE i \in 1..Len(text) :
         Char(text, i) = "{" /\ \A b \in 1..(i - 1) : Char(text, b) # "{"
  ELSE 0

\* the position of the last } of text, 0 when there is none
LastBrace(text) ==
  IF \E i \in 1..Len(text) : Char(text, i) = "}"
  THEN CHOOSE i \in 1..Len(text) :
         Char(text, i) = "}" /\ \A b \in (i + 1)..Len(text) : Char(text, b) # "}"
  ELSE 0

\* lines 65-71: the longest prefix of candidate that loads as a dict, the
\* prefixes that do ending at ends
LongestDict(candidate, ends) ==
  IF ends = {} THEN NoMatch ELSE LoadsDict(SubSeq(candidate, 1, MaxOf(ends)))

\* lines 63-73; a text that loads as a dict ends with } and whitespace, so
\* that no other prefix needs loading
DictInCandidate(candidate) ==
  LongestDict(candidate,
              {end \in 1..Len(candidate) :
                 /\ Char(candidate, end) \in JsonSpaceChars \cup {"}"}
                 /\ LoadsDict(SubSeq(candidate, 1, end)).found})

\* lines 59-73: re.search(r"(\{[\s\S]*\})", text) matches from the first { to
\* the last } behind it
DictBetween(text, first, last) ==
  IF first = 0 \/ last < first THEN NoMatch ELSE DictInCandidate(SubSeq(text, first, last))

\* lines 52-73, whole being what json.loads(text) gave
DictFrom(text, whole) ==
  IF whole.found THEN whole ELSE DictBetween(text, FirstBrace(text), LastBrace(text))

\* _extract_json_from_text(text), lines 47-73; NoMatch stands for None
ExtractJson(text) == IF text = "" THEN NoMatch ELSE DictFrom(text, LoadsDict(text))

-----------------------------------------------------------------------------
(* _deterministic_policy_from_chunks of src/src/policy_generator.py          *)
(*                                                                           *)
(* A policy object is kept as json.dump writes it: the function from each    *)
(* top-level key to the JSON text of its value.  The values uuid4 and        *)
(* utcnow give are kept symbolic.                                            *)

\* the n-th uuid.uuid4().hex[:8] of a call
Uuid8(n) == "<uuid4-" \o ToString(n) \o ">"

\* datetime.datetime.utcnow().strftime('%Y%m%d%H%M%S')
NowStamp == "<utcnow>"

\* _now_iso()
NowIso == "<utcnow-iso>Z"

\* the position of the first line break of s from i on, Len(s) + 1 when
\* there is none
LineEnd(s, i) ==
  CHOOSE j \in i..(Len(s) + 1) :
    /\ j > Len(s) \/ Char(s, j) = "\n"
    /\ \A k \in i..(j - 1) : Char(s, k) # "\n"

\* (\d+)\s*years? matches at j with all the digits that start there
DurationAt(s, j) ==
  IsDigit(Char(s, j)) /\ StartsWithAt(s, SkipSpaces(s, SkipDigits(s, j)), "year")

\* where group 1 of the match of confidenti.*?(\d+)\s*years? that starts at i
\* begins, or 0: the first digit after the keyword and on its line ('.' stops
\* at a line break) whose run of digits whitespace and 'year' follow
DurationStart(s, i) ==
  IF /\ i >= 1
     /\ StartsWithAt(s, i, "confidenti")
     /\ \E j \in (i + 10)..(LineEnd(s, i + 10) - 1) : DurationAt(s, j)
  THEN CHOOSE j \in (i + 10)..(LineEnd(s, i + 10) - 1) :
         /\ DurationAt(s, j)
         /\ \A b \in (i + 10)..(j - 1) : ~DurationAt(s, b)
  ELSE 0

\* group 1 of the match whose digits start at j, NoMatch for j = 0
DurationFrom(s, j) ==
  IF j = 0 THEN NoMatch ELSE [found |-> TRUE, g1 |-> SubSeq(s, j, SkipDigits(s, j) - 1)]

\* the match of confidenti.*?(\d+)\s*years? that starts at i, with its group 1
ConfidentialityYearsAt(s, i) == DurationFrom(s, DurationStart(s, i))

\* re.search(r'confidenti.*?(\d+)\s*years?', s): the leftmost match
SearchConfidentialityYears(s) ==
  IF \E i \in 1..Len(s) : DurationStart(s, i) > 0
  THEN ConfidentialityYearsAt(s, CHOOSE i \in 1..Len(s) :
                                   /\ DurationStart(s, i) > 0
                                   /\ \A b \in 1..(i - 1) : DurationStart(s, b) = 0)
  ELSE NoMatch

\* the dict add_rule appends (lines 82-94) as the n-th rule, as JSON text;
\* importance and confidence are given as the text of the float
AddRule(n, clause_name, policy_rule, explanation, severity, importance, recommended_fix, confidence) ==
  DumpItems(<< <<"rule_id", DumpStr(Uuid8(n))>>,
               <<"clause_name", DumpStr(clause_name)>>,
               <<"policy_rule", DumpStr(policy_rule)>>,
               <<"explanation", DumpStr(explanation)>>,
               <<"severity", DumpStr(severity)>>,
               <<"importance", importance>>,
               <<"examples", "[]">>,
               <<"recommended_fix", DumpStr(recommended_fix)>>,
               <<"citation", DumpStr("SECTION")>>,
               <<"confidence", confidence>> >>)

\* lines 100-113: the rule for the match m; int() raises at line 101 for a
\* duration of more than 4300 digits
ConfidentialityRuleOf(m, rule, fix) ==
  IF ~m.found
  THEN AddRule(1, "Confidentiality Term", rule, "No confidentiality duration found.",
               "MEDIUM", "1.0", fix, "0.75")
  ELSE IF IntRaises(m.g1) THEN Raise("ValueError")
  ELSE IF IntLtThree(m.g1)
       THEN AddRule(1, "Confidentiality Term", rule,
                    "Found confidentiality duration " \o IntRepr(m.g1) \o " years.",
                    "MEDIUM", "1.0", fix, "0.9")
       ELSE AddRule(1, "Confidentiality Term", rule,
                    "Found confidentiality " \o IntRepr(m.g1) \o " years (OK).",
                    "LOW", "0.8", fix, "0.9")

\* lines 98-113, m being the match of line 99
ConfidentialityRuleFor(m) ==
  ConfidentialityRuleOf(m, "Confidentiality obligations must last for at least 3 years.",
                        "Confidentiality shall last 3 years.")

\* lines 98-113
ConfidentialityRule(full_text) == ConfidentialityRuleFor(SearchConfidentialityYears(full_text))

\* lines 115-125
LiabilityRule(full_text) ==
  IF Contains(full_text, "liability")
  THEN IF Contains(full_text, "1.5") \/ Contains(full_text, "1.5x")
       THEN AddRule(2, "Liability Cap", "Liability cap must not exceed 1.5x the total fees paid.",
                    "Liability seems compliant.", "LOW", "1.0",
                    "Liability limited to 1.5x fees.", "0.85")
       ELSE AddRule(2, "Liability Cap", "Liability cap must not exceed 1.5x total fees.",
                    "No explicit numeric cap found.", "HIGH", "1.5",
                    "Liability limited to 1.5x fees.", "0.8")
  ELSE AddRule(2, "Liability Cap", "Liability cap must not exceed 1.5x total fees.",
               "No liability clause found.", "HIGH", "1.5",
               "Liability limited to 1.5x fees.", "0.75")

\* lines 127-135
DataSaleRule(full_text) ==
  IF Contains(full_text, "sell") \/ Contains(full_text, "commercial")
  THEN AddRule(3, "Data Sale Prohibition", "Provider must not sell Client Data.",
               "Data may be sold.", "HIGH", "1.5",
               "Provider shall not sell client data.", "0.9")
  ELSE AddRule(3, "Data Sale Prohibition", "Provider must not sell Client Data.",
               "No data sale found.", "LOW", "0.8",
               "Provider shall not sell client data.", "0.7")

\* lines 137-143
SecurityRule(full_text) ==
  IF Contains(full_text, "encrypt") \/ Contains(full_text, "security")
  THEN AddRule(4, "Security Responsibility", "Provider must protect client data.",
               "Some security text found.", "LOW", "1.0", "Provider must secure data.", "0.8")
  ELSE AddRule(4, "Security Responsibility", "Provider must protect client data.",
               "No security terms found.", "HIGH", "1.5", "Provider must secure data.", "0.85")

\* lines 145-151
GoverningLawRule(full_text) ==
  IF Contains(full_text, "governed by")
  THEN AddRule(5, "Governing Law Validity", "Agreement must specify valid jurisdiction.",
               "Governing law exists.", "LOW", "1.0", "Use proper jurisdiction.", "0.8")
  ELSE AddRule(5, "Governing Law Validity", "Agreement must specify valid jurisdiction.",
               "No governing law found.", "HIGH", "1.5",
               "Agreement must specify governing law.", "0.85")

\* line 96: str.join raises TypeError when c.get("text", "") is None for a chunk
JoinRaises(chs) == \E k \in 1..Len(chs) : Get(chs[k], "text", "") = None

\* line 96: "\n\n".join(c.get("text", "") for c in chunks).lower()
FullText(chs) ==
  IF JoinRaises(chs) THEN Raise("TypeError")
  ELSE Lower(JoinWith([k \in 1..Len(chs) |-> Get(chs[k], "text", "")], "\n\n"))

\* the metadata of the fallback policy, line 159
FallbackMetadata == DumpItems(<< <<"generator", DumpStr("fallback")>> >>)

\* lines 98-160, m being the match of line 99: the policy, or the exception
\* when line 101 raised
PolicyWith(m, full_text, source_doc) ==
  IF m.found /\ IntRaises(m.g1) THEN Raise("ValueError")
  ELSE DictOf(<< <<"policy_id", DumpStr("POLICY-" \o NowStamp)>>,
                 <<"source_document", DumpStr(source_doc)>>,
                 <<"generated_at", DumpStr(NowIso)>>,
                 <<"rules", "[" \o JoinWith(<< ConfidentialityRuleFor(m), LiabilityRule(full_text),
                                               DataSaleRule(full_text), SecurityRule(full_text),
                                               GoverningLawRule(full_text) >>, ", ") \o "]">>,
                 <<"summary", DumpStr("Generated using deterministic fallback (Gemini unavailable).")>>,
                 <<"metadata", FallbackMetadata>> >>)

\* lines 96-160
PolicyFrom(full_text, source_doc) ==
  PolicyWith(SearchConfidentialityYears(full_text), full_text, source_doc)

\* _deterministic_policy_from_chunks(chunks, source_doc), lines 78-160
DeterministicPolicy(chs, source_doc) ==
  IF JoinRaises(chs) THEN FullText(chs) ELSE PolicyFrom(FullText(chs), source_doc)

-----------------------------------------------------------------------------
(* _call_gemini and generate_policy_from_chunks of src/src/policy_generator.py *)

\* the largest max_retries of a direct call of _call_gemini
MaxRetries == 3

\* max_retries when the caller gives none
DefaultMaxRetries == 3

\* the value a call returned
Return(v) == [value |-> v]

\* return f(...): the value f gave, or the exception f raised
ReturnOf(v) == IF IsRaised(v) THEN v ELSE Return(v)

IsReturn(v) == "value" \in DOMAIN v

\* line 199
DefaultModels == <<"gemini-1.5-flash", "gemini-1.5-pro", "gemini-1.5-flash-8b", "gemini-pro", "gemini">>

\* what the SDK offers: the first of the three entry points the code looks for
\* that is there, or none of them
Apis == {"GenerativeModel", "generate_content", "generate", "none"}

\* GEMINI_MODEL: unset, a name that is also a default, a name of its own
EnvModels == {None, "gemini-pro", "tuned-model"}

\* what list_models() yields when it succeeds: a new name and a known one
ListedModels == <<"models/gemini-2.0-flash", "gemini-1.5-pro">>

\* what becomes of the listing: list_models() gives ListedModels, it raises
\* (caught at line 188), or it gives a lazy listing whose iteration at line 201
\* raises
Listings == {"listed", "fails", "breaks"}

\* the exception a call of the SDK raises: a subclass of Exception that
\* _call_gemini does not raise itself
SdkError == "GoogleAPIError"

\* the environments of a call: SDK importable or not, API key set or not,
\* genai.configure returning or raising, the entry point, GEMINI_MODEL, and
\* the listing
Environments ==
  {[installed |-> i, api_key |-> k, configure_ok |-> c, api |-> a, env_model |-> e,
    listing |-> l, models |-> IF l = "listed" THEN ListedModels ELSE <<>>] :
     i \in BOOLEAN, k \in BOOLEAN, c \in BOOLEAN, a \in Apis, e \in EnvModels,
     l \in Listings}

\* the texts a successful call of the model gives
ModelOutputs ==
  { "",
    "I cannot help with that.",
    "{}",
    "[1, 2]",
    "{\"rules\": [], \"metadata\": {\"generator\": \"gemini\"}}",
    "Here is the policy: {\"policy_id\": \"P1\", \"rules\": []} Done.",
    "{\"rules\": [1, 2]} and {more}",
    "{\"rules\": [" }

\* the messages of the exceptions a call of the model raises
ErrorMessages ==
  { "404 models/gemini is not supported",
    "Model Not Found",
    "Unsupported response MIME type",
    "Deadline exceeded" }

\* what one call of the SDK does: it gives a text or raises
Responses == {[text |-> t] : t \in ModelOutputs} \cup {[error |-> m] : m \in ErrorMessages}

\* lines 235, 273, 307: "not found" in errstr or "404" in errstr
IsNotFound(msg) == Contains(Lower(msg), "not found") \/ Contains(Lower(msg), "404")

\* lines 238, 276: "mime" in errstr, on the two entry points that try text/plain
IsMime(api, msg) == api \in {"GenerativeModel", "generate_content"} /\ Contains(Lower(msg), "mime")

\* the elements of seq at the places of keep, in the order of seq
Kept(seq, keep) ==
  [k \in 1..Cardinality(keep) |->
     seq[CHOOSE i \in keep : Cardinality({j \in keep : j <= i}) = k]]

\* lines 201-207: the listed names that are not yet candidates, appended, each
\* at the first place it is listed
AddDiscovered(cands, available) ==
  cands \o Kept(available,
                {i \in 1..Len(available) :
                   /\ available[i] # ""
                   /\ \A k \in 1..Len(cands) : cands[k] # available[i]
                   /\ \A j \in 1..(i - 1) : available[j] # available[i]})

\* lines 210-211: the non-empty names, each at its first place
Dedupe(cands) ==
  Kept(cands, {i \in 1..Len(cands) :
                 cands[i] # "" /\ \A j \in 1..(i - 1) : cands[j] # cands[i]})

\* lines 194-211
Candidates(env) ==
  LET named == IF env.env_model \notin {None, ""} THEN <<env.env_model>> ELSE <<>>
  IN Dedupe(AddDiscovered(named \o DefaultModels, env.models))

\* a direct call _call_gemini(prompt, max_retries)
InitGemini ==
  /\ mode = "gemini"
  /\ pc = "call"
  /\ use_model = TRUE
  /\ genv \in Environments
  /\ max_retries \in 0..MaxRetries
  /\ candidates = <<>>
  /\ mi = 0
  /\ attempt = 0
  /\ last_err = None
  /\ tries = 0
  /\ outcome = ""
  /\ raw = NotCalled
  /\ generated = NoReport
  /\ chunks = <<>>
  /\ NoAnalysis
  /\ FirstCall
  /\ NoIngestion

\* lines 174-213: the import (174-177) and the key (180-182), each raising
\* RuntimeError when missing; genai.configure (183), whose exception nothing
\* catches; list_models() (186-191), whose exception is caught; the loop over
\* the listing (201), whose iteration raising nothing catches; the candidate
\* list (194-211)
CallGemini ==
  /\ pc = "call"
  /\ IF ~genv.installed \/ ~genv.api_key
     THEN /\ raw' = Raise("RuntimeError")
          /\ pc' = "called"
          /\ UNCHANGED <<candidates, mi, attempt, last_err>>
     ELSE IF ~genv.configure_ok \/ genv.listing = "breaks"
     THEN /\ raw' = Raise(SdkError)
          /\ pc' = "called"
          /\ UNCHANGED <<candidates, mi, attempt, last_err>>
     ELSE /\ candidates' = Candidates(genv)
          /\ mi' = 1
          /\ attempt' = 0
          /\ last_err' = None
          /\ pc' = "try"
          /\ UNCHANGED raw
  /\ UNCHANGED <<rerunVars, ingestVars, analysisVars, mode, chunks, use_model, genv,
                 max_retries, tries, outcome, generated>>

\* a return of _call_gemini with the text the model gave
ReturnText(text, err) ==
  /\ raw' = Return(text)
  /\ last_err' = err
  /\ outcome' = "returned"
  /\ pc' = "called"
  /\ UNCHANGED <<mi, attempt>>

\* a break out of the inner loop: the rest of the attempts on model_name is given up
Break(err, how) ==
  /\ last_err' = err
  /\ outcome' = how
  /\ pc' = "next"
  /\ UNCHANGED <<mi, attempt, raw>>

\* time.sleep(...) and continue: the next attempt on the same model_name
Retry(err) ==
  /\ last_err' = err
  /\ outcome' = "retry"
  /\ attempt' = attempt + 1
  /\ UNCHANGED <<mi, pc, raw>>

\* lines 215-320: one pass of the inner loop on model_name = candidates[mi]
TryModel ==
  /\ pc = "try"
  /\ mi <= Len(candidates)
  /\ attempt < max_retries
  /\ tries' = tries + 1
  /\ IF genv.api = "none" THEN Break(last_err, "no_api")
     ELSE \E first \in Responses :
            IF "text" \in DOMAIN first THEN ReturnText(first.text, last_err)
            ELSE IF IsNotFound(first.error) THEN Break(first.error, "not_found")
            ELSE IF IsMime(genv.api, first.error)
                 THEN \E second \in Responses :
                        IF "text" \in DOMAIN second THEN ReturnText(second.text, first.error)
                        ELSE Break(second.error, "mime_failed")
                 ELSE Retry(first.error)
  /\ UNCHANGED <<rerunVars, ingestVars, analysisVars, mode, chunks, use_model, genv,
                 max_retries, candidates, generated>>

\* line 214: the outer loop takes the next candidate, after a break or after
\* the inner loop has run out of attempts
NextCandidate ==
  /\ \/ pc = "next"
     \/ pc = "try" /\ mi <= Len(candidates) /\ attempt >= max_retries
  /\ mi' = mi + 1
  /\ attempt' = 0
  /\ tries' = 0
  /\ pc' = "try"
  /\ UNCHANGED <<rerunVars, ingestVars, analysisVars, mode, chunks, use_model, genv,
                 max_retries, candidates, last_err, outcome, raw, generated>>

\* lines 322-324: no candidate is left
RaiseNoUsableModel ==
  /\ pc = "try"
  /\ mi > Len(candidates)
  /\ raw' = Raise("RuntimeError")
  /\ pc' = "called"
  /\ UNCHANGED <<rerunVars, ingestVars, analysisVars, mode, chunks, use_model, genv,
                 max_retries, candidates, mi, attempt, last_err, tries, outcome, generated>>

NextGemini == CallGemini \/ TryModel \/ NextCandidate \/ RaiseNoUsableModel

SpecGemini == InitGemini /\ [][NextGemini]_vars

\* the call runs on: every call of the SDK comes back
SpecGeminiLive == SpecGemini /\ WF_vars(NextGemini)

\* the source_doc argument
SourceDoc == "contract.txt"

\* the default of top_k, line 329
TopK == 5

\* chunks[:top_k], line 331
Excerpts(chs) == SubSeq(chs, 1, IF Len(chs) < TopK THEN Len(chs) ELSE TopK)

\* line 331: c["text"] raises KeyError for a chunk without text while the
\* generator is run to its end, and str.join raises TypeError for a None text
ContextRaises(chs) ==
  \E k \in 1..Len(Excerpts(chs)) : Get(Excerpts(chs)[k], "text", None) = None

\* line 331: "\n\n---\n\n".join(c["text"] for c in chunks[:top_k])
Context(chs) ==
  IF \E k \in 1..Len(Excerpts(chs)) : "text" \notin DOMAIN Excerpts(chs)[k]
  THEN Raise("KeyError")
  ELSE IF ContextRaises(chs) THEN Raise("TypeError")
  ELSE JoinWith([k \in 1..Len(Excerpts(chs)) |-> Excerpts(chs)[k]["text"]], "\n\n---\n\n")

\* the chunks lists of the generator runs: lists the chunker gives, and lists
\* of a caller with a chunk that has no text, a chunk whose text is None, and
\* a None text behind the first top_k chunks
GenChunkLists ==
  { <<>>,
    << Chunk(0, "Confidential information is protected for 2 years.") >>,
    << Chunk(0, "Liability is capped at 1.5x the fees; the provider may sell data."),
       Chunk(2, "Data is encrypted. Governed by the laws of Ohio. Confidentiality lasts 5 years.") >>,
    << Chunk(1, LongDuration) >>,
    << Section(0, Absent) >>,
    << Chunk(0, "Confidentiality lasts 5 years."), Section(1, None) >>,
    << Chunk(0, "Scope."), Chunk(1, "Fees."), Chunk(2, "Term."), Chunk(3, "Notices."),
       Chunk(4, "Liability is capped at 1.5x the fees."), Section(5, None) >> }

\* _deterministic_policy_from_chunks(chunks, source_doc) for each chunks list of
\* the runs: what the call of line 382 gives
FallbackOf == [chs \in GenChunkLists |-> DeterministicPolicy(chs, SourceDoc)]

InitGenerate ==
  /\ mode = "generate"
  /\ pc = "start"
  /\ chunks \in GenChunkLists
  /\ use_model \in BOOLEAN
  /\ genv \in Environments
  /\ max_retries = 0
  /\ candidates = <<>>
  /\ mi = 0
  /\ attempt = 0
  /\ last_err = None
  /\ tries = 0
  /\ outcome = ""
  /\ raw = NotCalled
  /\ generated = NoReport
  /\ NoAnalysis
  /\ FirstCall
  /\ NoIngestion

\* lines 371-374: the four setdefault calls
SetDefaults(parsed) ==
  parsed @@ [policy_id |-> DumpStr("POLICY-" \o Uuid8(1)),
             source_document |-> DumpStr(SourceDoc),
             generated_at |-> DumpStr(NowIso),
             metadata |-> DumpItems(<< <<"generator", DumpStr("gemini")>> >>)]

\* lines 331-367 and 382: the prompt is built from the context of line 331
\* (it goes to the model and nowhere else), and the exception of line 331
\* leaves the function; without use_model the fallback is returned, with it
\* _call_gemini(prompt) is called
GenerateStart ==
  /\ mode = "generate"
  /\ pc = "start"
  /\ IF ContextRaises(chunks)
     THEN /\ generated' = Context(chunks)
          /\ pc' = "done"
          /\ UNCHANGED max_retries
     ELSE IF use_model
     THEN /\ max_retries' = DefaultMaxRetries
          /\ pc' = "call"
          /\ UNCHANGED generated
     ELSE /\ generated' = ReturnOf(FallbackOf[chunks])
          /\ pc' = "done"
          /\ UNCHANGED max_retries
  /\ UNCHANGED <<rerunVars, ingestVars, analysisVars, mode, chunks, use_model, genv,
                 candidates, mi, attempt, last_err, tries, outcome, raw>>

\* lines 367-382: _call_gemini has returned or raised
GenerateFinish ==
  /\ mode = "generate"
  /\ pc = "called"
  /\ IF IsRaised(raw)
     THEN generated' = ReturnOf(FallbackOf[chunks])
     ELSE \E parsed \in {ExtractJson(raw.value)} :
            IF parsed.found /\ DOMAIN parsed.dict # {}
            THEN generated' = Return(SetDefaults(parsed.dict))
            ELSE generated' = ReturnOf(FallbackOf[chunks])
  /\ pc' = "done"
  /\ UNCHANGED <<rerunVars, ingestVars, analysisVars, mode, chunks, use_model, genv,
                 max_retries, candidates, mi, attempt, last_err, tries, outcome, raw>>

NextGenerate ==
  GenerateStart \/ CallGemini \/ TryModel \/ NextCandidate \/ RaiseNoUsableModel \/ GenerateFinish

SpecGenerate == InitGenerate /\ [][NextGenerate]_vars

-----------------------------------------------------------------------------
(* Properties of the analysis run *)

RECURSIVE SeqSum(_)
SeqSum(seq) == IF seq = <<>> THEN 0 ELSE Head(seq) + SeqSum(Tail(seq))

Abs(x) == IF x < 0 THEN -x ELSE x

\* the importance the r-th rule of the policy list carries, 1.0 when it has none
ImportanceOf(r) == IF "importance" \in DOMAIN policy[r] THEN policy[r].importance ELSE 1

\* the text of the s-th section, '' when it has none
TextOf(s) == IF "text" \in DOMAIN chunks[s] THEN chunks[s].text ELSE ""

\* the weight (in tenths) a finding of the report stands for
FindingWeight(f) == IF f.is_violation THEN RISK_WEIGHTS[f.risk_level] * f.importance ELSE 0

\* the sum of the importances of the policy list, each rule once
PolicyImportance == SeqSum([r \in 1..Len(policy) |-> ImportanceOf(r)])

\* C1: the returned results hold len(sections) * len(policy) findings and the
\* finding at index s*len(policy)+r (from 0) is the evaluation of the r-th rule
\* against the s-th section, with that section's id and that rule's importance.
C1_ResultsSectionMajor ==
  pc = "done" =>
    /\ Len(report.results) = Len(chunks) * Len(policy)
    /\ \A s \in 1..Len(chunks) : \A r \in 1..Len(policy) :
         \E e \in {local_rule_check(Get(policy[r], "clause_name", None),
                                    Get(policy[r], "policy_rule", None), TextOf(s))} :
           /\ ~IsRaised(e)
           /\ report.results[(s - 1) * Len(policy) + r]
                = e @@ [section_id |-> chunks[s].id, importance |-> ImportanceOf(r)]

\* two different sections were evaluated against two different rules
C1_Witness ==
  /\ pc = "done"
  /\ Len(chunks) = 2
  /\ Len(policy) = 2
  /\ policy[1] # policy[2]
  /\ TextOf(1) # TextOf(2)
  /\ Len(report.results) = 4

\* C2 as stated: for a non-empty policy list 0 <= document_risk_percentage <= 100,
\* whatever the importances.
C2_PercentageWithinBounds ==
  (pc = "done" /\ policy # <<>>) =>
    (0 <= report.document_risk_percentage /\ report.document_risk_percentage <= 10000)

\* C2 amended: for a non-empty policy list document_risk_percentage <= 100, and
\* 0 <= document_risk_percentage when no rule carries a negative importance.
C2_PercentageBoundedAbove ==
  (pc = "done" /\ policy # <<>>) =>
    /\ report.document_risk_percentage <= 10000
    /\ (\A r \in 1..Len(policy) : ImportanceOf(r) >= 0) => 0 <= report.document_risk_percentage

\* the violations of several sections outweigh the total importance, no
\* importance is negative, and the percentage is capped at 100
C2_Witness ==
  /\ pc = "done"
  /\ policy # <<>>
  /\ \A r \in 1..Len(policy) : ImportanceOf(r) >= 0
  /\ total_violation_weight > PolicyImportance * 10
  /\ report.document_risk_percentage = 10000

\* C3: document_risk_percentage is min(100, total_violation_weight /
\* (total_importance * 1.0) * 100) rounded to 2 decimals when total_importance > 0
\* and 0 otherwise, where total_violation_weight sums the violating findings of
\* all sections and total_importance counts each rule's importance once.
C3_PercentageFormula ==
  pc = "done" =>
    LET tvw == SeqSum([k \in 1..Len(report.results) |-> FindingWeight(report.results[k])])
        den == PolicyImportance * 10
        p == report.document_risk_percentage
    IN IF PolicyImportance > 0
       THEN IF tvw >= den
            THEN p = 10000
            ELSE 2 * Abs(p * den - tvw * 10000) <= den
       ELSE p = 0

\* two sections, a percentage strictly between 0 and 100 that is not a whole
\* number of hundredths before rounding
C3_Witness ==
  /\ pc = "done"
  /\ Len(chunks) = 2
  /\ PolicyImportance > 0
  /\ report.document_risk_percentage \in 1..9999
  /\ report.document_risk_percentage * PolicyImportance * 10 # total_violation_weight * 10000

\* C4: no exception is raised for malformed input (a rule without clause_name
\* or policy_rule, a section whose text is missing, null or empty): the
\* analysis completes and returns a report.
C4_NoExceptionOnMalformedInput == pc # "raised"

\* the weight (in tenths) of the findings of the report that carry section id
SectionFindingsWeight(id) ==
  SeqSum([k \in 1..Len(report.results) |->
            IF report.results[k].section_id = id THEN FindingWeight(report.results[k]) ELSE 0])

\* C9: in every section score section_importance_total is the sum of the
\* importances of all policy rules (1.0 for a rule without one),
\* section_violation_weight is the sum of RISK_WEIGHT[risk_level] * importance
\* over that section's violating findings, and the document's total violation
\* weight is the sum of the section_violation_weight values.
C9_SectionAccumulators ==
  pc = "done" =>
    /\ Len(report.section_scores) = Len(chunks)
    /\ \A k \in 1..Len(report.section_scores) :
         /\ report.section_scores[k].section_importance_total = PolicyImportance
         /\ report.section_scores[k].section_violation_weight
              = SectionFindingsWeight(report.section_scores[k].id)
    /\ total_violation_weight
         = SeqSum([k \in 1..Len(report.section_scores) |->
                     report.section_scores[k].section_violation_weight])

\* two sections of different weight, one of them with a violating and a
\* compliant finding, under a policy with a rule that has no importance
C9_Witness ==
  /\ pc = "done"
  /\ Len(chunks) = 2
  /\ \E r \in 1..Len(policy) : "importance" \notin DOMAIN policy[r]
  /\ \E i, j \in 1..Len(report.results) :
       /\ report.results[i].section_id = report.results[j].section_id
       /\ report.results[i].is_violation
       /\ ~report.results[j].is_violation
  /\ report.section_scores[1].section_violation_weight
       # report.section_scores[2].section_violation_weight

\* top_sections holds exactly the sections at the positions which of
\* section_scores, each once, by descending section_violation_weight and, for
\* equal weights, in document order; each entry is the section's id, the first
\* 300 characters of its text and its weight to 3 decimals
TopSectionsAre(which) ==
  LET top == report.top_sections
      sc == report.section_scores
  IN /\ Len(top) = Cardinality(which)
     /\ \E f \in [1..Len(top) -> which] :
          /\ \A i, j \in 1..Len(top) :
               i < j =>
                 \/ sc[f[i]].section_violation_weight > sc[f[j]].section_violation_weight
                 \/ /\ sc[f[i]].section_violation_weight = sc[f[j]].section_violation_weight
                    /\ f[i] < f[j]
          /\ \A i \in 1..Len(top) :
               top[i] = [id |-> chunks[f[i]].id,
                         snippet |-> Prefix(TextOf(f[i]), 300),
                         score |-> sc[f[i]].section_violation_weight * 100]

\* C10 as stated: top_sections contains exactly the sections whose
\* section_violation_weight is non-zero, each once, by descending weight, equal
\* weights in document order, each entry {id, first 300 chars, weight to 3 decimals}.
C10_TopSectionsNonZero ==
  pc = "done" =>
    TopSectionsAre({k \in 1..Len(report.section_scores) :
                      report.section_scores[k].section_violation_weight # 0})

\* C10 amended: top_sections contains exactly the sections whose
\* section_violation_weight is greater than zero (a section of negative weight
\* is left out), each once, by descending weight, equal weights in document
\* order, each entry {id, first 300 chars, weight to 3 decimals}.
C10_TopSectionsPositive ==
  pc = "done" =>
    TopSectionsAre({k \in 1..Len(report.section_scores) :
                      report.section_scores[k].section_violation_weight > 0})

\* two sections in top_sections, the later one of the document first, and a
\* snippet cut to 300 characters
C10_Witness ==
  /\ pc = "done"
  /\ Len(report.top_sections) = 2
  /\ report.top_sections[1].id > report.top_sections[2].id
  /\ \E i \in 1..2 : \E s \in 1..Len(chunks) :
       /\ report.top_sections[i].id = chunks[s].id
       /\ Len(TextOf(s)) > 300
       /\ Len(report.top_sections[i].snippet) = 300

\* the clause names of the violating findings of the report
ViolatingClauses ==
  {report.results[k].clause_name :
     k \in {i \in 1..Len(report.results) : report.results[i].is_violation}}

\* the weight (in tenths) of the violating findings of the report named name
ClauseFindingsWeight(name) ==
  SeqSum([k \in 1..Len(report.results) |->
            IF report.results[k].clause_name = name THEN FindingWeight(report.results[k]) ELSE 0])

\* the index in results of the first violating finding named name
FirstViolation(name) ==
  CHOOSE k \in 1..Len(report.results) :
    /\ report.results[k].is_violation
    /\ report.results[k].clause_name = name
    /\ \A i \in 1..(k - 1) :
         ~(report.results[i].is_violation /\ report.results[i].clause_name = name)

\* C11: top_clauses has one entry per distinct clause_name with at least one
\* violating finding, its score the sum of RISK_WEIGHT[risk_level] * importance
\* over the violating findings of that name in all sections; the entries are
\* in descending score order, names of equal score in the order of their first
\* violating finding in results.
C11_TopClauses ==
  pc = "done" =>
    LET top == report.top_clauses
    IN /\ Len(top) = Cardinality(ViolatingClauses)
       /\ {top[i].clause_name : i \in 1..Len(top)} = ViolatingClauses
       /\ \A i \in 1..Len(top) :
            /\ DOMAIN top[i] = {"clause_name", "score"}
            /\ top[i].score = ClauseFindingsWeight(top[i].clause_name)
       /\ \A i, j \in 1..Len(top) :
            i < j =>
              \/ top[i].score > top[j].score
              \/ /\ top[i].score = top[j].score
                 /\ FirstViolation(top[i].clause_name) < FirstViolation(top[j].clause_name)

\* two clause names of equal score, each the sum of the violating findings of
\* two sections
C11_Witness ==
  /\ pc = "done"
  /\ Len(report.top_clauses) = 2
  /\ report.top_clauses[1].score = report.top_clauses[2].score
  /\ \A i \in 1..2 :
       Cardinality({k \in 1..Len(report.results) :
                      /\ report.results[k].is_violation
                      /\ report.results[k].clause_name = report.top_clauses[i].clause_name}) = 2

\* pol differs from the policy list of the first call at most in the
\* severities (risk_level_if_violated) its rules declare
SameButDeclaredLevels(pol) ==
  /\ Len(pol) = Len(first_args.policy)
  /\ \A r \in 1..Len(pol) : Declare(pol[r], Absent) = Declare(first_args.policy[r], Absent)

\* C13: the report does not depend on risk_level_if_violated: a call with a
\* policy list that differs from the first only in the declared severities
\* (another value, an unrecognised value, none) ends as the first call did.
C13_DeclaredLevelIgnored ==
  (run = 2 /\ pc \in {"done", "raised"} /\ SameButDeclaredLevels(policy)) =>
    report = first_report

\* a second call under a policy whose rules declare other severities than in
\* the first call has returned a report with violations
C13_Witness ==
  /\ run = 2
  /\ pc = "done"
  /\ SameButDeclaredLevels(policy)
  /\ \A r \in 1..Len(policy) :
       Get(policy[r], "risk_level_if_violated", None)
         # Get(first_args.policy[r], "risk_level_if_violated", None)
  /\ Len(policy) = 2
  /\ report.document_risk_percentage > 0

\* C17: every section score's violations list is empty, also for a section
\* whose section_violation_weight is greater than 0.
C17_ViolationsAlwaysEmpty ==
  /\ (pc = "rule") => section_result.violations = <<>>
  /\ \A k \in 1..Len(section_scores) : section_scores[k].violations = <<>>
  /\ (pc = "done") =>
       \A k \in 1..Len(report.section_scores) : report.section_scores[k].violations = <<>>

\* a report in which a section has violating findings and a positive
\* section_violation_weight
C17_Witness ==
  /\ pc = "done"
  /\ \E k \in 1..Len(report.section_scores) :
       /\ report.section_scores[k].section_violation_weight > 0
       /\ report.section_scores[k].violations = <<>>
       /\ \E i \in 1..Len(report.results) :
            /\ report.results[i].section_id = report.section_scores[k].id
            /\ report.results[i].is_violation

-----------------------------------------------------------------------------
(* Properties of the evaluator run *)

IsFinding(v) == "is_violation" \in DOMAIN v

DecisionOf(f) ==
  [is_violation |-> f.is_violation, risk_level |-> f.risk_level, reasoning |-> f.reasoning]

\* the arguments of the call as the chain sees them
ArgClause == Lower(args.clause_name)

ArgRule == Lower(args.policy_rule)

ArgText == LoweredText(args.relevant_text)

\* the clause categories in the order they are said to be tested
CategoryOrder ==
  << "confidentiality", "liability", "data sale", "termination", "indemnity",
     "availability", "security", "refund", "governing law", "dispute resolution" >>

CategoryTrigger(cat, clause, rule, txt) ==
  CASE cat = "confidentiality"    -> ConfidentialityTrigger(clause, rule, txt)
    [] cat = "liability"          -> LiabilityTrigger(clause, rule, txt)
    [] cat = "data sale"          -> DataSaleTrigger(clause, rule, txt)
    [] cat = "termination"        -> TerminationTrigger(clause, rule, txt)
    [] cat = "indemnity"          -> IndemnityTrigger(clause, rule, txt)
    [] cat = "availability"       -> AvailabilityTrigger(clause, rule, txt)
    [] cat = "security"           -> SecurityTrigger(clause, rule, txt)
    [] cat = "refund"             -> RefundTrigger(clause, rule, txt)
    [] cat = "governing law"      -> GoverningLawTrigger(clause, rule, txt)
    [] cat = "dispute resolution" -> DisputeTrigger(clause, rule, txt)

CategoryCheck(cat, txt) ==
  CASE cat = "confidentiality"    -> ConfidentialityCheck(txt)
    [] cat = "liability"          -> LiabilityCheck(txt)
    [] cat = "data sale"          -> DataSaleCheck(txt)
    [] cat = "termination"        -> TerminationCheck(txt)
    [] cat = "indemnity"          -> IndemnityCheck(txt)
    [] cat = "availability"       -> AvailabilityCheck(txt)
    [] cat = "security"           -> SecurityCheck(txt)
    [] cat = "refund"             -> RefundCheck(txt)
    [] cat = "governing law"      -> GoverningLawCheck(txt)
    [] cat = "dispute resolution" -> DisputeCheck(txt)

\* the positions in CategoryOrder of the categories whose trigger holds
Triggered(clause, rule, txt) ==
  {k \in 1..Len(CategoryOrder) : CategoryTrigger(CategoryOrder[k], clause, rule, txt)}

\* C5: the finding is decided solely by the first category, in the order
\* confidentiality, liability, data sale, termination, indemnity, availability,
\* security, refund, governing law, dispute resolution, whose trigger holds; in
\* particular a section text containing "confidenti" is decided by the
\* confidentiality logic whatever the rule. A call that ends in the ValueError
\* of int() was decided by the confidentiality logic too: no later category
\* was reached.
C5_FirstMatchPriorityChain ==
  /\ IsFinding(rc) =>
       \E hits \in {Triggered(ArgClause, ArgRule, ArgText)} :
         /\ hits # {} =>
              \E first \in hits :
                /\ \A k \in hits : first <= k
                /\ DecisionOf(rc) = CategoryCheck(CategoryOrder[first], ArgText)
         /\ Contains(ArgText, "confidenti") => DecisionOf(rc) = ConfidentialityCheck(ArgText)
  /\ rc = Raise("ValueError") =>
       /\ ConfidentialityTrigger(ArgClause, ArgRule, ArgText)
       /\ ConfidentialityCheck(ArgText) = rc

\* a section text containing "confidenti" was evaluated against a rule whose
\* clause name and rule text trigger the liability category as well
C5_Witness ==
  /\ IsFinding(rc)
  /\ Contains(ArgText, "confidenti")
  /\ ~Contains(ArgClause, "confidential")
  /\ LiabilityTrigger(ArgClause, ArgRule, ArgText)
  /\ DecisionOf(rc) = ConfidentialityCheck(ArgText)

\* C6 as stated: a rule that triggers no earlier category and whose clause_name
\* and policy_rule do not contain "liability" is decided by the liability logic
\* when the section body contains "liability" (and not "confidenti").
C6_LiabilityTriggersOnBody ==
  ( /\ IsFinding(rc)
    /\ ~ConfidentialityTrigger(ArgClause, ArgRule, ArgText)
    /\ ~Contains(ArgClause, "liability")
    /\ ~Contains(ArgRule, "liability")
    /\ Contains(ArgText, "liability") )
  => DecisionOf(rc) = LiabilityCheck(ArgText)

\* the values LiabilityCheck can return are returned by no other category
LiabilityDecided(f) == DecisionOf(f) = LiabilityCheck(ArgText)

\* C6 amended: the liability category triggers when "liability" appears in the
\* clause name or in the rule text, and only then: with no earlier category
\* triggered, the liability logic decides the finding if and only if the clause
\* name or the rule text contains "liability", whatever the section body holds.
C6_LiabilityTriggersOnNameOrRule ==
  (IsFinding(rc) /\ ~ConfidentialityTrigger(ArgClause, ArgRule, ArgText)) =>
    (LiabilityDecided(rc) <=> (Contains(ArgClause, "liability") \/ Contains(ArgRule, "liability")))

\* the body contains "liability", neither the clause name nor the rule text
\* does, no earlier category triggers, and the liability logic did not decide
C6_Witness ==
  /\ IsFinding(rc)
  /\ ~ConfidentialityTrigger(ArgClause, ArgRule, ArgText)
  /\ ~Contains(ArgClause, "liability")
  /\ ~Contains(ArgRule, "liability")
  /\ Contains(ArgText, "liability")
  /\ ~LiabilityDecided(rc)

\* the liability category is the first to trigger
LiabilityFirst ==
  /\ IsFinding(rc)
  /\ ~ConfidentialityTrigger(ArgClause, ArgRule, ArgText)
  /\ LiabilityTrigger(ArgClause, ArgRule, ArgText)

Compliant(f, level) == ~f.is_violation /\ f.risk_level = level

Violation(f, level) == f.is_violation /\ f.risk_level = level

\* the fraction digits of 1.5 + 2^-53, the middle of 1.5 and the double above it
HalfwayAboveOneAndHalf == "50000000000000011102230246251565404236316680908203125"

\* the i-th fraction digit of a numeral with the fraction digits fp
FractionDigit(fp, i) == IF i <= Len(fp) THEN DigitValue[Char(fp, i)] ELSE 0

\* the fraction .fp is at most the fraction .bound
FractionLeq(fp, bound) ==
  LET n == IF Len(fp) > Len(bound) THEN Len(fp) ELSE Len(bound)
  IN \/ \A i \in 1..n : FractionDigit(fp, i) = FractionDigit(bound, i)
     \/ \E i \in 1..n :
          /\ FractionDigit(fp, i) < FractionDigit(bound, i)
          /\ \A j \in 1..(i - 1) : FractionDigit(fp, j) = FractionDigit(bound, j)

\* the value of the numeral g = <digits>[.<digits>] is at most 1.5.  The value
\* is the double nearest to the numeral, and a numeral in the middle of two
\* doubles has the one with the even mantissa, which 1.5 has: the numerals of
\* a value <= 1.5 are those up to 1.5 + 2^-53, which are 0 before the point, or
\* 1 before it and at most the fraction of 1.5 + 2^-53 behind it.
AtMostOneAndHalf(g) ==
  LET ip == IntPart(g)
      zeros == {i \in 1..Len(ip) : Char(ip, i) = "0"}
  IN \/ zeros = 1..Len(ip)
     \/ /\ ip # ""
        /\ Char(ip, Len(ip)) = "1"
        /\ zeros = 1..(Len(ip) - 1)
        /\ FractionLeq(FracPart(g), HalfwayAboveOneAndHalf)

\* C7: when the liability category is the first to trigger, a multiplier
\* pattern with value <= 1.5 gives compliant/LOW and with value > 1.5 gives
\* violation/HIGH, whatever else the text holds; with no multiplier pattern a
\* literal "1.5" gives compliant/LOW; otherwise the outcome is violation/HIGH.
C7_LiabilityOutcome ==
  LiabilityFirst =>
    \E m \in {SearchMultiplier(ArgText)} :
      IF m.found
      THEN IF AtMostOneAndHalf(m.g2) THEN Compliant(rc, "LOW") ELSE Violation(rc, "HIGH")
      ELSE IF Contains(ArgText, "1.5") THEN Compliant(rc, "LOW") ELSE Violation(rc, "HIGH")

\* a multiplier above 1.5 in a text that also holds a literal "1.5" and
\* "total fees": the multiplier decides
C7_Witness ==
  /\ LiabilityFirst
  /\ SearchMultiplier(ArgText).found
  /\ ~AtMostOneAndHalf(SearchMultiplier(ArgText).g2)
  /\ Contains(ArgText, "1.5")
  /\ Contains(ArgText, "total fees")
  /\ Violation(rc, "HIGH")

\* no category predicate holds for the call
NothingTriggered ==
  /\ args.clause_name # None
  /\ args.policy_rule # None
  /\ Triggered(ArgClause, ArgRule, ArgText) = {}

\* C8 as stated: when no category predicate matches, local_rule_check does not
\* raise and returns is_violation=false, risk_level=LOW, reasoning="not matched".
C8_DefaultNotMatched ==
  (rc # NotCalled /\ NothingTriggered) =>
    /\ IsFinding(rc)
    /\ DecisionOf(rc) = [is_violation |-> FALSE, risk_level |-> "LOW", reasoning |-> "not matched"]

\* C8 amended: when no category predicate matches, local_rule_check does not
\* raise and returns is_violation=false, risk_level=LOW, with the reasoning
\* "Clause not directly matched by deterministic checks (treated as low risk)."
C8_DefaultLowRisk ==
  (rc # NotCalled /\ NothingTriggered) =>
    /\ IsFinding(rc)
    /\ DecisionOf(rc) =
         [is_violation |-> FALSE, risk_level |-> "LOW",
          reasoning |-> "Clause not directly matched by deterministic checks (treated as low risk)."]

\* a call on a non-empty text that no category matches has returned
C8_Witness ==
  /\ rc # NotCalled
  /\ NothingTriggered
  /\ ArgText # ""
  /\ IsFinding(rc)

\* C16: every finding local_rule_check returns is a violation exactly when its
\* risk_level is MEDIUM or HIGH (a compliant finding is LOW, a violation never
\* is), so the weight a finding adds is 0, the MEDIUM or the HIGH weight times
\* the importance, and never the LOW weight or the default for an unknown level.
C16_ViolationIffMediumOrHigh ==
  IsFinding(rc) =>
    /\ rc.is_violation <=> rc.risk_level \in {"MEDIUM", "HIGH"}
    /\ ~rc.is_violation <=> rc.risk_level = "LOW"
    /\ \A importance \in {1, 2} :
         ViolationWeight(rc, importance)
           \in {0, RISK_WEIGHTS.MEDIUM * importance, RISK_WEIGHTS.HIGH * importance}

\* the indemnity branch has returned its MEDIUM violation
C16_Witness ==
  /\ IsFinding(rc)
  /\ rc.is_violation
  /\ rc.risk_level = "MEDIUM"
  /\ DecisionOf(rc) = IndemnityCheck(ArgText)

-----------------------------------------------------------------------------
(* Properties of the chunker *)

\* the first position from which text is read in the file at or after from, 0 if none
FindFrom(text, from) ==
  LET at == {i \in from..(Len(content) - Len(text) + 1) :
               SubSeq(content, i, i + Len(text) - 1) = text}
  IN IF at = {} THEN 0 ELSE CHOOSE i \in at : \A j \in at : i <= j

RECURSIVE InDocumentOrder(_, _)
\* the texts of the chunks from the k-th on are read in the file one after the
\* other, at or after position from
InDocumentOrder(k, from) ==
  IF k > Len(chunks) THEN TRUE
  ELSE LET at == FindFrom(chunks[k].text, from)
       IN at # 0 /\ InDocumentOrder(k + 1, at + Len(chunks[k].text))

\* C14: the chunker returns the chunks in document order with pairwise
\* distinct, strictly increasing ids, no chunk has an empty or whitespace-only
\* text, and a file that cannot be read gives the empty list, not an exception.
C14_ChunkerOutput ==
  /\ pc # "raised"
  /\ (mode = "chunk" /\ pc = "done") =>
       IF content = Unreadable THEN chunks = <<>>
       ELSE /\ \A i, j \in 1..Len(chunks) : i < j => chunks[i].id < chunks[j].id
            /\ \A i \in 1..Len(chunks) :
                 /\ chunks[i].text # ""
                 /\ \E k \in 1..Len(chunks[i].text) : ~IsSpace(Char(chunks[i].text, k))
            /\ InDocumentOrder(1, 1)

\* two chunks returned from a file with a blank section between them and
\* blanks around a text
C14_Witness ==
  /\ mode = "chunk"
  /\ pc = "done"
  /\ Len(chunks) = 2
  /\ chunks[2].id > chunks[1].id + 1
  /\ \E k \in 1..Len(raw_sections) : Strip(raw_sections[k]) \notin {"", raw_sections[k]}

-----------------------------------------------------------------------------
(* Properties of the policy generator *)

\* what _deterministic_policy_from_chunks gives for the chunks of the run
FallbackPolicy == FallbackOf[chunks]

\* C15: generate_policy_from_chunks never propagates a model failure. Without
\* use_model the model is never called and the deterministic fallback policy is
\* returned; with use_model, when the call of the model raises or its output
\* has no JSON object in it, the fallback policy, whose metadata.generator is
\* "fallback", is returned; the policy of the model is returned only when a
\* JSON object was extracted.
C15_NeverPropagatesModelFailure ==
  /\ ~use_model => raw = NotCalled /\ tries = 0 /\ pc \in {"start", "done"}
  /\ (mode = "generate" /\ pc = "done") =>
       /\ IsReturn(generated)
       /\ \E parsed \in {IF IsReturn(raw) THEN ExtractJson(raw.value) ELSE NoMatch} :
            /\ ~use_model => generated.value = FallbackPolicy
            /\ (use_model /\ ~parsed.found) =>
                 /\ generated.value = FallbackPolicy
                 /\ generated.value["metadata"] = "{\"generator\": \"fallback\"}"
            /\ generated.value # FallbackPolicy =>
                 /\ parsed.found
                 /\ generated.value = SetDefaults(parsed.dict)

\* the names the candidate list is built from, lines 195-207
CandidateNames ==
  {DefaultModels[k] : k \in 1..Len(DefaultModels)}
    \cup {genv.models[k] : k \in 1..Len(genv.models)}
    \cup (IF genv.env_model = None THEN {} ELSE {genv.env_model})

\* the candidate list is built: the SDK is there, a key is set, and neither
\* genai.configure nor the loop over the listing raised
ListBuilt ==
  genv.installed /\ genv.api_key /\ genv.configure_ok /\ genv.listing # "breaks"

\* what holds in every state of a call of _call_gemini; a RuntimeError raised
\* before the list is built (lines 177 and 182: no SDK, no key) is taken as
\* raised with no candidate left, the list being empty
C18_CallState ==
  /\ tries <= max_retries
  /\ attempt <= tries
  /\ \A i, j \in 1..Len(candidates) : i < j => candidates[i] # candidates[j]
  /\ pc # "call" /\ ListBuilt => {candidates[k] : k \in 1..Len(candidates)} = CandidateNames
  /\ IsReturn(raw) => pc \in {"called", "done"}
  /\ pc = "called" =>
       \/ IsReturn(raw) /\ raw.value \in ModelOutputs /\ outcome = "returned"
       \/ raw = Raise("RuntimeError") /\ \A k \in 1..Len(candidates) : k < mi

\* what holds of every step of a call of _call_gemini
C18_CallStep ==
  /\ mi' >= mi
  /\ (pc = "try" /\ tries' = tries + 1 /\ pc' # "called" /\ IsNotFound(last_err'))
       => pc' = "next" /\ attempt' = attempt
  /\ pc = "next" => pc' = "try" /\ mi' = mi + 1 /\ attempt' = 0 /\ tries' = 0
  /\ raw # NotCalled => raw' = raw

\* C18: _call_gemini always terminates. Over the deduplicated list of
\* candidates it makes at most max_retries attempts on each candidate; an
\* error that says "not found" or "404" gives up the attempts left on that
\* candidate and goes to the next one; the call ends by returning the text of
\* the first attempt that succeeds or, when no candidate is left, by raising
\* RuntimeError, and never without one of the two.
C18_CallGeminiTerminates ==
  /\ []C18_CallState
  /\ [][C18_CallStep]_vars
  /\ <>(pc = "called" /\ raw # NotCalled)

====
